---- MODULE Spec2Model ----
(***************************************************************************)
(* A model of the clauders session engine: the Transport (one JSON value   *)
(* per line over the child's stdin/stdout), the Client's receive loop with *)
(* its inline servicing of McpMessage / HookCallback control requests, the *)
(* in-process McpServer, and the respond_to_tool idempotency set.          *)
(*                                                                         *)
(* A typed value is a record of its members; an Option<T> is a sequence   *)
(* of length 0 or 1; JSON read from the child is tagged with its JSON kind *)
(* ([t |-> "str", v |-> ...]) and decoded as serde decodes it.  A          *)
(* formatted string (format!) is the tuple of its pieces.                  *)
(***************************************************************************)
EXTENDS Integers, Sequences, FiniteSets, TLC

VARIABLES
    mcp_servers,          \* Client.mcp_servers: name -> [tools, tool_map]
    hooks,                \* Client.hooks: Option<Hooks> (list lengths)
    hook_callbacks,       \* Client.hook_callbacks: callback id -> entry
    inbuf,                \* child's stdout pipe: lines written, not yet read
    child_eof,            \* the child has closed its stdout
    n_emitted,            \* number of lines the child has written so far
    stdin_open,           \* the child still reads its stdin (writes succeed)
    io,                   \* log of what Transport did on the two pipes
    transport_lock,       \* Client.transport (Mutex): holder or "free"
    responded_lock,       \* Client.responded_tool_ids (Mutex): holder or "free"
    responded_tool_ids,   \* Client.responded_tool_ids: HashSet<String>
    session_id,           \* Client.session_id: Option<String>
    rpc,                  \* position of the receive() stream generator
    run,                  \* number of receive() invocations started
    incoming,             \* receive(): the value bound to `incoming`
    response,             \* receive(): the control response to be written
    pending,              \* receive(): responses of the current message not yet yielded
    yielded,              \* every item the receive() streams have yielded
    handler_calls,        \* every tool handler / hook callback invocation
    host,                 \* host tasks: position inside a Client method
    calls,                \* completed host calls, in completion order
    history,              \* Conversation.history: Vec<Turn>
    turn,                 \* TurnBuilder::send: its position and locals
    transport             \* Transport: stdin handle, child, stderr task, teardown

vars == <<mcp_servers, hooks, hook_callbacks, inbuf, child_eof, n_emitted,
          stdin_open, io, transport_lock, responded_lock, responded_tool_ids,
          session_id, rpc, run, incoming, response, pending, yielded,
          handler_calls, host, calls, history, turn, transport>>

----------------------------------------------------------------------------
(* Bounds of the model *)

\* Lines the child writes in one behaviour of the streaming specifications.
MaxLines == 3

\* Lines the child writes in one behaviour of the control specification.
MaxControlLines == 2

\* receive() invocations in one behaviour.
MaxRuns == 2

\* Host calls (respond_to_tool, clear_tool_response_tracking) in one behaviour.
MaxCalls == 3

\* Most host calls in the runs over the host's control requests.
MaxHostCalls == 2

\* Most lines the child writes in those runs.
MaxHostLines == 2

\* Lines the child writes while sends are taken step by step.
MaxPipeLines == 1

\* Most host calls in the runs that clear the response tracking.
MaxClearCalls == 4

\* Most hooks of one kind a host registers.
MaxHooks == 2

\* Most hook callback requests the child writes in the hook runs.
MaxHookLines == 1

----------------------------------------------------------------------------
(* Option and JSON helpers.  A JSON value read from the child is tagged    *)
(* with its kind, as serde_json sees it: JStr, JNum, JLong, JFloat, JBool, *)
(* JNull, JArr (a sequence of values) and JObj (a record of values).  A    *)
(* line that is not JSON text is RawLine, one that is not UTF-8 BytesLine. *)

None == <<>>

Some(x) == <<x>>

JStr(s) == [t |-> "str", v |-> s]

\* A number that is an integer and fits i32.
JNum(s) == [t |-> "num", v |-> s]

\* An integer that fits i64 but not i32.
JLong(s) == [t |-> "long", v |-> s]

\* Any other number.
JFloat(s) == [t |-> "float", v |-> s]

JBool(b) == [t |-> "bool", v |-> b]

JNull == [t |-> "null", v |-> "null"]

JArr(s) == [t |-> "arr", v |-> s]

JObj(r) == [t |-> "obj", v |-> r]

\* json!({})
JEmpty == JObj(<<>>)

RawLine(s) == [t |-> "raw", v |-> s]

BytesLine(s) == [t |-> "bytes", v |-> s]

\* serde_json Value::get(key): Some(member) of an object, otherwise None
Get(obj, key) ==
    IF obj.t = "obj" /\ key \in DOMAIN obj.v THEN Some(obj.v[key]) ELSE None

\* Option<&Value>::and_then(Value::as_str)
AsStr(opt) == IF opt # None /\ opt[1].t = "str" THEN Some(opt[1].v) ELSE None

RECURSIVE Flatten(_)
Flatten(ss) == IF ss = <<>> THEN <<>> ELSE Head(ss) \o Flatten(Tail(ss))

Last(s) == s[Len(s)]

----------------------------------------------------------------------------
(* Deserialize as serde derives it for the wire types of proto/: what each *)
(* type accepts (..Decodes) and the value it yields (..Of).  A decoded     *)
(* value is a record of its members: a String, bool or integer member is   *)
(* its payload, an Option member is present when it is Some, a member of   *)
(* type Value keeps the JSON value, and #[serde(flatten)] extras are not   *)
(* kept.                                                                   *)

IsStr(j) == j.t = "str"

IsBool(j) == j.t = "bool"

IsI32(j) == j.t = "num"

IsI64(j) == j.t \in {"num", "long"}

IsF64(j) == j.t \in {"num", "long", "float"}

IsObj(j) == j.t = "obj"

IsArr(j) == j.t = "arr"

\* serde_json::Value accepts every JSON value.
IsValue(j) == TRUE

\* Vec<String>
IsStrings(j) == IsArr(j) /\ \A i \in 1..Len(j.v) : IsStr(j.v[i])

\* A member of type T: it must be there and be a T.
Req(o, k, P(_)) == k \in DOMAIN o /\ P(o[k])

\* A member of type Option<T>: absent or null is None.
Present(o, k) == k \in DOMAIN o /\ o[k].t # "null"

Opt(o, k, P(_)) == Present(o, k) => P(o[k])

\* A member with #[serde(default)]: absent is the default, null is not.
Dflt(o, k, P(_)) == k \in DOMAIN o => P(o[k])

\* The Option members of ks that are Some, as payloads / as JSON values.
Scalars(o, ks) == [k \in {x \in ks : Present(o, x)} |-> o[k].v]

Values(o, ks) == [k \in {x \in ks : Present(o, x)} |-> o[k]]

BlockTypes == {"text", "tool_use", "tool_result", "thinking"}

\* #[serde(tag = "type")] enum ContentBlock: does the value decode?  Every
\* variant flattens its extras, so only an object does.
BlockDecodes(b) ==
    /\ IsObj(b)
    /\ Req(b.v, "type", IsStr)
    /\ CASE b.v.type.v = "text" -> Req(b.v, "text", IsStr)
         [] b.v.type.v = "tool_use" ->
              /\ Req(b.v, "id", IsStr)
              /\ Req(b.v, "name", IsStr)
              /\ Req(b.v, "input", IsValue)
         [] b.v.type.v = "tool_result" ->
              /\ Req(b.v, "tool_use_id", IsStr)
              /\ Opt(b.v, "content", IsValue)
              /\ Opt(b.v, "is_error", IsBool)
         [] b.v.type.v = "thinking" ->
              /\ Req(b.v, "thinking", IsStr)
              /\ Req(b.v, "signature", IsStr)
         [] OTHER -> FALSE

\* The ContentBlock a decodable value yields.
BlockOf(b) ==
    CASE b.v.type.v = "text" -> [type |-> "text", text |-> b.v.text.v]
      [] b.v.type.v = "tool_use" ->
            [type |-> "tool_use", id |-> b.v.id.v, name |-> b.v.name.v,
             input |-> b.v.input]
      [] b.v.type.v = "tool_result" ->
            [type |-> "tool_result", tool_use_id |-> b.v.tool_use_id.v]
            @@ Values(b.v, {"content"}) @@ Scalars(b.v, {"is_error"})
      [] b.v.type.v = "thinking" ->
            [type |-> "thinking", thinking |-> b.v.thinking.v,
             signature |-> b.v.signature.v]

\* Vec<ContentBlock>
BlocksDecode(j) == IsArr(j) /\ \A i \in 1..Len(j.v) : BlockDecodes(j.v[i])

BlocksOf(j) == [i \in 1..Len(j.v) |-> BlockOf(j.v[i])]

\* #[serde(untagged)] enum UserContent { Text(String), Blocks(Vec<..>) }
UserContentDecodes(j) == IsStr(j) \/ BlocksDecode(j)

UserContentOf(j) == IF IsStr(j) THEN j.v ELSE BlocksOf(j)

\* UserMessageInner
UserInnerDecodes(m) == IsObj(m) /\ Req(m.v, "content", UserContentDecodes)

AssistantErrors ==
    {"authentication_failed", "billing_error", "rate_limit",
     "invalid_request", "server_error", "unknown"}

\* A unit: null, or the empty map, which serde's buffered content also
\* takes for ().
IsUnit(j) == j.t = "null" \/ (IsObj(j) /\ DOMAIN j.v = {})

\* A unit variant of an externally tagged enum: the string of its name, or
\* a map whose single key is its name and whose value is a unit.
IsUnitVariant(j, names) ==
    \/ IsStr(j) /\ j.v \in names
    \/ /\ IsObj(j)
       /\ Cardinality(DOMAIN j.v) = 1
       /\ \A k \in DOMAIN j.v : k \in names /\ IsUnit(j.v[k])

\* The name of the variant a decodable value yields.
UnitVariantOf(j) == IF IsStr(j) THEN j.v ELSE CHOOSE k \in DOMAIN j.v : TRUE

IsAssistantError(j) == IsUnitVariant(j, AssistantErrors)

\* AssistantMessageInner
AssistantInnerDecodes(m) ==
    /\ IsObj(m)
    /\ Req(m.v, "content", BlocksDecode)
    /\ Req(m.v, "model", IsStr)
    /\ Opt(m.v, "error", IsAssistantError)

\* Usage
UsageDecodes(u) ==
    /\ IsObj(u)
    /\ \A k \in {"input_tokens", "output_tokens", "total_tokens",
                 "cache_creation_input_tokens", "cache_read_input_tokens"} :
           Opt(u.v, k, IsI64)

\* ResultMessage
ResultDecodes(o) ==
    /\ Req(o, "subtype", IsStr)
    /\ Req(o, "duration_ms", IsI64)
    /\ Req(o, "duration_api_ms", IsI64)
    /\ Req(o, "is_error", IsBool)
    /\ Req(o, "num_turns", IsI32)
    /\ Req(o, "session_id", IsStr)
    /\ Opt(o, "total_cost_usd", IsF64)
    /\ Opt(o, "usage", UsageDecodes)
    /\ Opt(o, "result", IsStr)
    /\ Opt(o, "structured_output", IsValue)

\* #[serde(tag = "subtype")] enum SystemMessage { Init, Error }
SystemDecodes(o) ==
    /\ Req(o, "subtype", IsStr)
    /\ CASE o.subtype.v = "init" ->
              \A k \in {"session_id", "model", "cwd"} : Opt(o, k, IsStr)
         [] o.subtype.v = "error" -> Req(o, "error", IsStr)
         [] OTHER -> FALSE

RequestSubtypes ==
    {"interrupt", "can_use_tool", "initialize", "set_permission_mode",
     "hook_callback", "mcp_message", "set_model", "get_server_info"}

\* #[serde(rename_all = "camelCase")] enum PermissionMode
PermissionModes == {"default", "acceptEdits", "plan", "bypassPermissions"}

IsPermissionMode(j) == IsUnitVariant(j, PermissionModes)

\* PermissionUpdate
PermissionUpdateDecodes(u) ==
    IsObj(u) /\ Req(u.v, "tool_name", IsStr) /\ Opt(u.v, "rule", IsStr)

PermissionUpdatesDecode(j) ==
    IsArr(j) /\ \A i \in 1..Len(j.v) : PermissionUpdateDecodes(j.v[i])

\* #[serde(tag = "subtype")] enum Request.  The variants that carry members
\* flatten their extras and decode from an object only; the unit variants
\* also decode from the one-element array of their tag.
RequestDecodes(r) ==
    \/ /\ IsObj(r)
       /\ Req(r.v, "subtype", IsStr)
       /\ CASE r.v.subtype.v \in {"interrupt", "get_server_info"} -> TRUE
            [] r.v.subtype.v = "can_use_tool" ->
                 /\ Req(r.v, "tool_name", IsStr)
                 /\ Req(r.v, "input", IsValue)
                 /\ Opt(r.v, "permission_suggestions", PermissionUpdatesDecode)
                 /\ Opt(r.v, "blocked_path", IsStr)
            [] r.v.subtype.v = "initialize" -> Opt(r.v, "hooks", IsObj)
            [] r.v.subtype.v = "set_permission_mode" ->
                 Req(r.v, "mode", IsPermissionMode)
            [] r.v.subtype.v = "hook_callback" ->
                 /\ Req(r.v, "callback_id", IsStr)
                 /\ Req(r.v, "input", IsValue)
                 /\ Opt(r.v, "tool_use_id", IsStr)
            [] r.v.subtype.v = "mcp_message" ->
                 /\ Req(r.v, "server_name", IsStr)
                 /\ Req(r.v, "message", IsValue)
            [] r.v.subtype.v = "set_model" -> Req(r.v, "model", IsStr)
            [] OTHER -> FALSE
    \/ /\ IsArr(r)
       /\ Len(r.v) = 1
       /\ IsStr(r.v[1])
       /\ r.v[1].v \in {"interrupt", "get_server_info"}

\* The Request a decodable value yields.
RequestOf(r) ==
    IF IsArr(r) THEN [subtype |-> r.v[1].v]
    ELSE CASE r.v.subtype.v \in {"interrupt", "get_server_info"} ->
                [subtype |-> r.v.subtype.v]
           [] r.v.subtype.v = "can_use_tool" ->
                [subtype |-> "can_use_tool", tool_name |-> r.v.tool_name.v,
                 input |-> r.v.input]
                @@ Scalars(r.v, {"blocked_path"})
                @@ Values(r.v, {"permission_suggestions"})
           [] r.v.subtype.v = "initialize" ->
                [subtype |-> "initialize"] @@ Values(r.v, {"hooks"})
           [] r.v.subtype.v = "set_permission_mode" ->
                [subtype |-> "set_permission_mode", mode |-> UnitVariantOf(r.v.mode)]
           [] r.v.subtype.v = "hook_callback" ->
                [subtype |-> "hook_callback", callback_id |-> r.v.callback_id.v,
                 input |-> r.v.input]
                @@ Scalars(r.v, {"tool_use_id"})
           [] r.v.subtype.v = "mcp_message" ->
                [subtype |-> "mcp_message", server_name |-> r.v.server_name.v,
                 message |-> r.v.message]
           [] r.v.subtype.v = "set_model" ->
                [subtype |-> "set_model", model |-> r.v.model.v]

\* ErrorDetail: it has no flattened member, so it also decodes from the
\* array of its three members.
ErrorDetailDecodes(e) ==
    \/ /\ IsObj(e)
       /\ Req(e.v, "code", IsI32)
       /\ Req(e.v, "message", IsStr)
       /\ Opt(e.v, "data", IsValue)
    \/ /\ IsArr(e)
       /\ Len(e.v) = 3
       /\ IsI32(e.v[1])
       /\ IsStr(e.v[2])

ErrorDetailOf(e) ==
    IF IsArr(e)
    THEN [code |-> e.v[1].v, message |-> e.v[2].v]
         @@ (IF e.v[3].t # "null" THEN [data |-> e.v[3]] ELSE <<>>)
    ELSE [code |-> e.v.code.v, message |-> e.v.message.v] @@ Values(e.v, {"data"})

\* #[serde(tag = "subtype")] enum Response { Success, Error }
ResponseDecodes(r) ==
    /\ IsObj(r)
    /\ Req(r.v, "subtype", IsStr)
    /\ CASE r.v.subtype.v = "success" ->
              /\ Req(r.v, "request_id", IsStr)
              /\ Opt(r.v, "response", IsValue)
         [] r.v.subtype.v = "error" ->
              /\ Req(r.v, "request_id", IsStr)
              /\ Req(r.v, "error", ErrorDetailDecodes)
         [] OTHER -> FALSE

ResponseOf(r) ==
    IF r.v.subtype.v = "success"
    THEN [subtype |-> "success", request_id |-> r.v.request_id.v]
         @@ Values(r.v, {"response"})
    ELSE [subtype |-> "error", request_id |-> r.v.request_id.v,
          error |-> ErrorDetailOf(r.v.error)]

\* The tag and the members of a line for the internally tagged Incoming:
\* an object carries the tag in "type"; an array carries it first, and the
\* rest are the members in order.
HasTag(line) ==
    \/ IsObj(line) /\ Req(line.v, "type", IsStr)
    \/ IsArr(line) /\ Len(line.v) >= 1 /\ IsStr(line.v[1])

TagOf(line) == IF IsObj(line) THEN line.v.type.v ELSE line.v[1].v

\* #[serde(tag = "type", rename_all = "snake_case")] enum Incoming:
\* whether serde_json::from_str::<Incoming> succeeds on the line.  Only the
\* user and assistant envelopes, which flatten nothing, decode from an
\* array.
IncomingDecodes(line) ==
    /\ HasTag(line)
    /\ IF IsArr(line)
       THEN /\ Len(line.v) = 2
            /\ CASE TagOf(line) = "user" -> UserInnerDecodes(line.v[2])
                 [] TagOf(line) = "assistant" -> AssistantInnerDecodes(line.v[2])
                 [] OTHER -> FALSE
       ELSE CASE TagOf(line) = "user" -> Req(line.v, "message", UserInnerDecodes)
              [] TagOf(line) = "assistant" ->
                   Req(line.v, "message", AssistantInnerDecodes)
              [] TagOf(line) = "system" -> SystemDecodes(line.v)
              [] TagOf(line) = "result" -> ResultDecodes(line.v)
              [] TagOf(line) = "control_request" ->
                   /\ Req(line.v, "request_id", IsStr)
                   /\ Req(line.v, "request", RequestDecodes)
              [] TagOf(line) = "control_response" ->
                   Req(line.v, "response", ResponseDecodes)
              [] OTHER -> FALSE

\* The Incoming value a decodable line yields.
IncomingOf(line) ==
    LET o == IF IsArr(line) THEN [message |-> line.v[2]] ELSE line.v IN
    CASE TagOf(line) = "user" ->
            [type |-> "user",
             message |-> [content |-> UserContentOf(o.message.v.content)]]
      [] TagOf(line) = "assistant" ->
            [type |-> "assistant",
             message |-> [content |-> BlocksOf(o.message.v.content),
                          model |-> o.message.v.model.v]
                         @@ (IF Present(o.message.v, "error")
                             THEN [error |-> UnitVariantOf(o.message.v.error)]
                             ELSE <<>>)]
      [] TagOf(line) = "system" ->
            IF o.subtype.v = "init"
            THEN [type |-> "system", subtype |-> "init"]
                 @@ Scalars(o, {"session_id", "model", "cwd"})
            ELSE [type |-> "system", subtype |-> "error", error |-> o.error.v]
      [] TagOf(line) = "result" ->
            [type |-> "result", subtype |-> o.subtype.v,
             duration_ms |-> o.duration_ms.v,
             duration_api_ms |-> o.duration_api_ms.v,
             is_error |-> o.is_error.v, num_turns |-> o.num_turns.v,
             session_id |-> o.session_id.v]
            @@ Scalars(o, {"total_cost_usd", "result"})
            @@ Values(o, {"usage", "structured_output"})
      [] TagOf(line) = "control_request" ->
            [type |-> "control_request", request_id |-> o.request_id.v,
             request |-> RequestOf(o.request)]
      [] TagOf(line) = "control_response" ->
            [type |-> "control_response", response |-> ResponseOf(o.response)]

\* The Incoming variant of a decoded value.
IncomingVariant(inc) ==
    CASE inc.type = "user" -> "User"
      [] inc.type = "assistant" -> "Assistant"
      [] inc.type = "system" -> "System"
      [] inc.type = "result" -> "Result"
      [] inc.type = "control_request" -> "ControlRequest"
      [] inc.type = "control_response" -> "ControlResponse"

\* Transport::receive on one line of the child's output: read_line fails
\* on bytes that are not UTF-8 (Error::Io); a line that does not decode is
\* a ProtocolError.
TransportReceive(line) ==
    IF line.t = "bytes"
    THEN [tag |-> "Err", error |-> "Io"]
    ELSE IF IncomingDecodes(line)
    THEN [tag |-> "Some", variant |-> IncomingVariant(IncomingOf(line)),
          value |-> IncomingOf(line)]
    ELSE [tag |-> "Err", error |-> "ProtocolError"]

\* What the pipe log keeps of a line that gave no Incoming value.
Undecoded == [type |-> "undecodable"]

\* The value Transport::receive made of a line, for the pipe log.
Received(line) ==
    IF TransportReceive(line).tag = "Some"
    THEN TransportReceive(line).value ELSE Undecoded

\* Mutation of TransportReceiveEof: end-of-stream reported as a failure.
TransportReceiveEofFails == [tag |-> "Err", error |-> "ConnectionError"]

\* Transport::receive at end-of-stream (read_line returned 0 bytes).
TransportReceiveEof == [tag |-> "None"]

\* Incoming::as_control_request
as_control_request(inc) ==
    IF inc.variant = "ControlRequest" THEN Some(inc.value) ELSE None

\* Incoming::to_message
to_message(inc) ==
    IF inc.variant \in {"User", "Assistant", "System", "Result"}
    THEN Some(inc.value) ELSE None

\* InitMessage::session_id of a system/init message
InitSessionId(msg) ==
    IF "session_id" \in DOMAIN msg THEN Some(msg.session_id) ELSE None

----------------------------------------------------------------------------
(* The JSON text the child writes for a message, from the members the     *)
(* message carries.  The child is a separate program: these lines are its  *)
(* output, the input of Transport::receive, and no code of the client      *)
(* writes them.                                                            *)

\* The members of ks that rec has, as JSON strings / numbers / booleans.
StrMembers(rec, ks) == [k \in ks \cap DOMAIN rec |-> JStr(rec[k])]

NumMembers(rec, ks) == [k \in ks \cap DOMAIN rec |-> JNum(rec[k])]

BoolMembers(rec, ks) == [k \in ks \cap DOMAIN rec |-> JBool(rec[k])]

ValueMembers(rec, ks) == [k \in ks \cap DOMAIN rec |-> rec[k]]

\* ContentBlock
BlockJson(b) ==
    JObj(StrMembers(b, {"type", "text", "id", "name", "tool_use_id", "thinking",
                        "signature"})
         @@ ValueMembers(b, {"input", "content"})
         @@ BoolMembers(b, {"is_error"}))

BlocksJson(blocks) == JArr([i \in 1..Len(blocks) |-> BlockJson(blocks[i])])

\* Request
RequestJson(r) ==
    JObj(StrMembers(r, {"subtype", "tool_name", "blocked_path", "mode",
                        "callback_id", "tool_use_id", "server_name", "model"})
         @@ ValueMembers(r, {"input", "hooks", "message",
                             "permission_suggestions"}))

\* Response
ResponseJson(r) ==
    JObj(StrMembers(r, {"subtype", "request_id"})
         @@ ValueMembers(r, {"response"})
         @@ (IF "error" \in DOMAIN r
             THEN [error |-> JObj(NumMembers(r.error, {"code"})
                                  @@ StrMembers(r.error, {"message"})
                                  @@ ValueMembers(r.error, {"data"}))]
             ELSE <<>>))

\* A line of the child; it writes "role" in a user or assistant message.
IncomingJson(inc) ==
    CASE inc.type = "user" ->
            JObj([type |-> JStr("user"),
                  message |-> JObj([role |-> JStr("user"),
                                    content |-> BlocksJson(inc.message.content)])])
      [] inc.type = "assistant" ->
            JObj([type |-> JStr("assistant"),
                  message |-> JObj([role |-> JStr("assistant"),
                                    content |-> BlocksJson(inc.message.content)]
                                   @@ StrMembers(inc.message, {"model", "error"}))])
      [] inc.type = "system" ->
            JObj(StrMembers(inc, {"type", "subtype", "session_id", "model", "cwd",
                                  "error"}))
      [] inc.type = "result" ->
            JObj(StrMembers(inc, {"type", "subtype", "session_id", "result"})
                 @@ NumMembers(inc, {"duration_ms", "duration_api_ms", "num_turns"})
                 @@ BoolMembers(inc, {"is_error"})
                 @@ ValueMembers(inc, {"structured_output"}))
      [] inc.type = "control_request" ->
            JObj([type |-> JStr("control_request"),
                  request_id |-> JStr(inc.request_id),
                  request |-> RequestJson(inc.request)])
      [] inc.type = "control_response" ->
            JObj([type |-> JStr("control_response"),
                  response |-> ResponseJson(inc.response)])

----------------------------------------------------------------------------
(* response.rs *)

\* Mutation of BlockResponse: tool results are reported as tool uses.
BlockResponseConfused(block) ==
    CASE block.type = "text" -> [kind |-> "Text", inner |-> block]
      [] block.type = "tool_use" -> [kind |-> "ToolUse", inner |-> block]
      [] block.type = "tool_result" -> [kind |-> "ToolUse", inner |-> block]
      [] block.type = "thinking" -> [kind |-> "Thinking", inner |-> block]

\* The Response variant that wraps a content block.
BlockResponse(block) ==
    CASE block.type = "text" -> [kind |-> "Text", inner |-> block]
      [] block.type = "tool_use" -> [kind |-> "ToolUse", inner |-> block]
      [] block.type = "tool_result" -> [kind |-> "ToolResult", inner |-> block]
      [] block.type = "thinking" -> [kind |-> "Thinking", inner |-> block]

\* Mutation of from_message: the blocks of a message in error follow the
\* Error event.
from_message_keeping_blocks(msg) ==
    CASE msg.type = "user" -> <<>>
      [] msg.type = "assistant" ->
            IF "error" \in DOMAIN msg.message
            THEN <<[kind |-> "Error", inner |-> [assistant |-> msg.message.error]]>>
                 \o [i \in 1..Len(msg.message.content) |->
                        BlockResponse(msg.message.content[i])]
            ELSE [i \in 1..Len(msg.message.content) |->
                     BlockResponse(msg.message.content[i])]
      [] msg.type = "system" ->
            IF msg.subtype = "init"
            THEN <<[kind |-> "Init", inner |-> msg]>>
            ELSE <<[kind |-> "Error", inner |-> [system |-> msg.error]]>>
      [] msg.type = "result" -> <<[kind |-> "Complete", inner |-> msg]>>

\* Response::from_message
from_message(msg) ==
    CASE msg.type = "user" -> <<>>
      [] msg.type = "assistant" ->
            IF "error" \in DOMAIN msg.message
            THEN <<[kind |-> "Error", inner |-> [assistant |-> msg.message.error]]>>
            ELSE [i \in 1..Len(msg.message.content) |->
                     BlockResponse(msg.message.content[i])]
      [] msg.type = "system" ->
            IF msg.subtype = "init"
            THEN <<[kind |-> "Init", inner |-> msg]>>
            ELSE <<[kind |-> "Error", inner |-> [system |-> msg.error]]>>
      [] msg.type = "result" -> <<[kind |-> "Complete", inner |-> msg]>>

----------------------------------------------------------------------------
(* mcp_server.rs.  A tool is [name, handler]; its handler is host code,    *)
(* which either returns Ok(content) ("ok") or Err(ToolError) ("fail").     *)
(* Every operator that may run a handler returns [value, called]: the JSON *)
(* it produces and the indexes of the tools whose handlers it invoked.     *)

EmptyObject == <<>>

\* McpServer::with_version: tools.iter().enumerate().map(..).collect::<HashMap>
\* (a later tool of the same name replaces the earlier entry)
BuildToolMap(tools) ==
    [n \in {tools[i].name : i \in 1..Len(tools)} |->
        CHOOSE i \in 1..Len(tools) :
            /\ tools[i].name = n
            /\ \A j \in 1..Len(tools) : tools[j].name = n => j <= i]

McpServer(name, tools) ==
    [name |-> name, version |-> "1.0.0", tools |-> tools,
     tool_map |-> BuildToolMap(tools)]

\* McpServer::jsonrpc_success
jsonrpc_success(id, result) == [jsonrpc |-> "2.0", id |-> id, result |-> result]

\* McpServer::jsonrpc_error
jsonrpc_error(id, code, message) ==
    [jsonrpc |-> "2.0", id |-> id, error |-> [code |-> code, message |-> message]]

\* Tool::call: what the tool's handler returns.
ToolCall(tool) ==
    IF tool.handler = "ok"
    THEN [ok |-> TRUE, content |-> <<[type |-> "text", text |-> <<"done by ", tool.name>>]>>]
    ELSE [ok |-> FALSE, err |-> <<"execution failed: ", tool.name>>]

\* McpServer::handle_initialize
handle_initialize(server, id) ==
    jsonrpc_success(id,
        [protocolVersion |-> "2024-11-05",
         capabilities |-> [tools |-> EmptyObject],
         serverInfo |-> [name |-> server.name, version |-> server.version]])

\* McpServer::handle_tools_list
handle_tools_list(server, id) ==
    jsonrpc_success(id,
        [tools |-> [i \in 1..Len(server.tools) |-> [name |-> server.tools[i].name]]])

\* Mutation of LookupTool: an unknown name falls back to the first tool.
LookupToolFallback(server, tool_name) ==
    IF tool_name \in DOMAIN server.tool_map
    THEN Some(server.tool_map[tool_name])
    ELSE IF server.tools # <<>> THEN Some(1) ELSE None

\* self.tool_map.get(tool_name)
LookupTool(server, tool_name) ==
    IF tool_name \in DOMAIN server.tool_map
    THEN Some(server.tool_map[tool_name]) ELSE None

\* Mutation of ToolFailureResult: a handler failure becomes a JSON-RPC error.
ToolFailureAsError(id, err) == jsonrpc_error(id, -32603, err)

\* The Err(err) arm of handle_tools_call: a success result marked isError.
ToolFailureResult(id, err) ==
    jsonrpc_success(id,
        [content |-> <<[type |-> "text", text |-> err]>>, isError |-> TRUE])

\* McpServer::handle_tools_call
handle_tools_call(server, id, params) ==
    LET name == AsStr(Get(params, "name")) IN
    IF name = None
    THEN [value |-> jsonrpc_error(id, -32602, <<"missing 'name' parameter">>),
          called |-> <<>>]
    ELSE IF LookupTool(server, name[1]) = None
    THEN [value |-> jsonrpc_error(id, -32601, <<"tool '", name[1], "' not found">>),
          called |-> <<>>]
    ELSE LET tool_idx == LookupTool(server, name[1])[1]
             tool == server.tools[tool_idx]
             res == ToolCall(tool)
         IN  [value |->
                 IF res.ok
                 THEN jsonrpc_success(id, [content |-> res.content])
                 ELSE ToolFailureResult(id, res.err),
              called |-> <<[server |-> server.name, tool |-> tool_idx]>>]

\* McpServer::handle_json_message
handle_json_message(server, msg) ==
    LET m == AsStr(Get(msg, "method"))
        method == IF m = None THEN "" ELSE m[1]
        params == IF Get(msg, "params") # None THEN Get(msg, "params")[1] ELSE JEmpty
        id == IF Get(msg, "id") # None THEN Get(msg, "id")[1] ELSE JNull
    IN  CASE method = "initialize" ->
                [value |-> handle_initialize(server, id), called |-> <<>>]
          [] method = "tools/list" ->
                [value |-> handle_tools_list(server, id), called |-> <<>>]
          [] method = "tools/call" -> handle_tools_call(server, id, params)
          [] method = "notifications/initialized" ->
                [value |-> [jsonrpc |-> "2.0", result |-> EmptyObject],
                 called |-> <<>>]
          [] OTHER ->
                [value |-> jsonrpc_error(id, -32601,
                               <<"method '", method, "' not found">>),
                 called |-> <<>>]

----------------------------------------------------------------------------
(* Control responses (proto/control.rs) and the Client's inline servicing  *)
(* of inbound control requests (client.rs).                                *)

\* Mutation of ResponseEnvelopeSuccess: the request id is not carried over.
ResponseEnvelopeSuccessAnonymous(request_id, data) ==
    [type |-> "control_response",
     response |-> [subtype |-> "success", request_id |-> <<>>,
                   response |-> data]]

\* ResponseEnvelope::success(request_id, Some(response))
ResponseEnvelopeSuccess(request_id, data) ==
    [type |-> "control_response",
     response |-> [subtype |-> "success", request_id |-> request_id,
                   response |-> data]]

\* format!("hook_{id}")
HookId(n) == <<"hook_", n>>

\* Mutation of build_hook_callbacks: the id counter is reused as the index
\* (`id` in place of `idx` in the later loops).
build_hook_callbacks_by_id(h) ==
    IF h = None THEN <<>>
    ELSE LET p == h[1].pre_tool_use
             q == h[1].post_tool_use
             r == h[1].user_prompt_submit
             s == h[1].stop
         IN  [c \in {<<"hook_", n>> : n \in 0..(p + q + r + s - 1)} |->
                 LET n == c[2] IN
                 IF n < p THEN [kind |-> "PreToolUse", idx |-> n]
                 ELSE IF n < p + q THEN [kind |-> "PostToolUse", idx |-> n]
                 ELSE IF n < p + q + r THEN [kind |-> "UserPromptSubmit", idx |-> n]
                 ELSE [kind |-> "Stop", idx |-> n]]

\* Client::build_hook_callbacks: the four lists flattened in the order
\* pre_tool_use, post_tool_use, user_prompt_submit, stop, numbered from 0.
build_hook_callbacks(h) ==
    IF h = None THEN <<>>
    ELSE LET p == h[1].pre_tool_use
             q == h[1].post_tool_use
             r == h[1].user_prompt_submit
             s == h[1].stop
         IN  [c \in {HookId(n) : n \in 0..(p + q + r + s - 1)} |->
                 LET n == c[2] IN
                 IF n < p THEN [kind |-> "PreToolUse", idx |-> n]
                 ELSE IF n < p + q THEN [kind |-> "PostToolUse", idx |-> n - p]
                 ELSE IF n < p + q + r
                      THEN [kind |-> "UserPromptSubmit", idx |-> n - p - q]
                 ELSE [kind |-> "Stop", idx |-> n - p - q - r]]

\* Length of the hook list an entry points into.
HookListLen(h, kind) ==
    CASE kind = "PreToolUse" -> h.pre_tool_use
      [] kind = "PostToolUse" -> h.post_tool_use
      [] kind = "UserPromptSubmit" -> h.user_prompt_submit
      [] kind = "Stop" -> h.stop

\* The host callback's output serialized by to_hook_response.
HookResponse(kind, idx) ==
    [hookSpecificOutput |-> [hookEventName |-> kind], callback |-> idx]

\* Mutation of ServerNotFoundEnvelope: an error-outcome envelope.
ServerNotFoundAsError(request_id, server_name) ==
    [type |-> "control_response",
     response |-> [subtype |-> "error", request_id |-> request_id,
                   error |-> <<"MCP server '", server_name, "' not found">>]]

\* The None arm of handle_mcp_message: the endpoint is not registered.
ServerNotFoundEnvelope(request_id, server_name) ==
    ResponseEnvelopeSuccess(request_id,
        [mcp_response |->
            [jsonrpc |-> "2.0", id |-> JNull,
             error |-> [code |-> -32601,
                        message |-> <<"MCP server '", server_name, "' not found">>]]])

\* Client::handle_mcp_message
handle_mcp_message(request_id, server_name, message) ==
    IF server_name \in DOMAIN mcp_servers
    THEN LET r == handle_json_message(mcp_servers[server_name], message) IN
         [envelope |-> ResponseEnvelopeSuccess(request_id, [mcp_response |-> r.value]),
          called |-> r.called]
    ELSE [envelope |-> ServerNotFoundEnvelope(request_id, server_name),
          called |-> <<>>]

\* hooks.get_pre_tool_use_hook(idx) and its siblings return Some(..)
HookEntryLive(h, entry) == entry.idx < HookListLen(h, entry.kind)

\* Mutation of HookNoOpEnvelope: an error outcome instead of a no-op.
HookNoOpAsError(request_id) ==
    [type |-> "control_response",
     response |-> [subtype |-> "error", request_id |-> request_id,
                   error |-> <<"hook callback not found">>]]

\* ResponseEnvelope::success(request_id, Some(json!({})))
HookNoOpEnvelope(request_id) == ResponseEnvelopeSuccess(request_id, EmptyObject)

\* Client::handle_hook_callback over the client's fields `hooks` (h) and
\* `hook_callbacks` (cbs).
HandleHookCallbackWith(h, cbs, request_id, hook_req) ==
    LET callback_id == hook_req.callback_id IN
    IF callback_id \notin DOMAIN cbs
    THEN [envelope |-> HookNoOpEnvelope(request_id), called |-> <<>>]
    ELSE IF h = None
    THEN [envelope |-> HookNoOpEnvelope(request_id), called |-> <<>>]
    ELSE LET entry == cbs[callback_id] IN
         IF HookEntryLive(h[1], entry)
         THEN [envelope |-> ResponseEnvelopeSuccess(request_id,
                                HookResponse(entry.kind, entry.idx)),
               called |-> <<[hook |-> entry.kind, idx |-> entry.idx]>>]
         ELSE [envelope |-> HookNoOpEnvelope(request_id), called |-> <<>>]

\* Client::handle_hook_callback
handle_hook_callback(request_id, hook_req) ==
    HandleHookCallbackWith(hooks, hook_callbacks, request_id, hook_req)

----------------------------------------------------------------------------
(* Client::new: the Initialize control request (client.rs)                 *)

\* Mutation of build_hook_callback_ids: every list is numbered from 0.
build_hook_callback_ids_unbased(h) ==
    IF h = None THEN None
    ELSE LET keys == {k \in {"PreToolUse", "PostToolUse", "UserPromptSubmit", "Stop"} :
                         HookListLen(h[1], k) > 0}
         IN  Some([k \in keys |->
                 IF k \in {"PreToolUse", "PostToolUse"}
                 THEN [i \in 1..HookListLen(h[1], k) |->
                          [callbackIds |-> <<HookId(i - 1)>>]]
                 ELSE [i \in 1..HookListLen(h[1], k) |-> HookId(i - 1)]])

\* Client::build_hook_callback_ids: Value::Null (None) without hooks.
build_hook_callback_ids(h) ==
    IF h = None THEN None
    ELSE LET p == h[1].pre_tool_use
             q == h[1].post_tool_use
             r == h[1].user_prompt_submit
             s == h[1].stop
             keys == {k \in {"PreToolUse", "PostToolUse", "UserPromptSubmit", "Stop"} :
                         HookListLen(h[1], k) > 0}
         IN  Some([k \in keys |->
                 CASE k = "PreToolUse" ->
                        [i \in 1..p |-> [callbackIds |-> <<HookId(i - 1)>>]]
                   [] k = "PostToolUse" ->
                        [i \in 1..q |-> [callbackIds |-> <<HookId(p + i - 1)>>]]
                   [] k = "UserPromptSubmit" ->
                        [i \in 1..r |-> HookId(p + q + i - 1)]
                   [] k = "Stop" ->
                        [i \in 1..s |-> HookId(p + q + r + i - 1)]])

\* Client::initialize: the request envelope it writes.
InitializeEnvelope(h) ==
    LET ids == build_hook_callback_ids(h) IN
    [type |-> "control_request", request_id |-> <<"uuid", 0>>,
     request |-> IF ids = None
                 THEN [subtype |-> "initialize"]
                 ELSE [subtype |-> "initialize",
                       hooks |-> [hookCallbackIds |-> ids[1]]]]

----------------------------------------------------------------------------
(* Transport::send on the child's stdin, await by await.  A write to a     *)
(* pipe whose read end the child has closed fails (Error::Io).             *)

SendOk == stdin_open

\* The pipe log after the first await of Transport::send(line) issued by
\* `by`, stdin.write_all(data.as_bytes()).await?, has begun: "bytes" when
\* bytes of the message are in the pipe (all of them once write_all
\* returns), "write_failed" when the write failed with nothing written.
\* `n` is the number of the inbound line being answered (0: none).
SendData(by, n, line) ==
    Append(io, [op |-> IF SendOk THEN "bytes" ELSE "write_failed",
                by |-> by, n |-> n, line |-> line])

\* The pipe log when the send returns: "write" when the rest of the
\* message, stdin.write_all(b"\n").await? and stdin.flush().await?
\* succeeded and the line is whole; "newline_failed" when the child closed
\* its input first, so that Err(Io) is returned although bytes of the
\* message were written, and the message stays without its newline.
SendNewline(by, n, line) ==
    Append(io, [op |-> IF SendOk THEN "write" ELSE "newline_failed",
                by |-> by, n |-> n, line |-> line])

\* The log entries a send leaves: "bytes" once bytes of the message are
\* written, then "write" once the line is whole, or "newline_failed";
\* "write_failed" when nothing of the message could be written.
SendEntries == {"bytes", "write", "write_failed", "newline_failed"}

\* Number of inbound lines read from the child's stdout so far.
ReadCount == Cardinality({i \in 1..Len(io) : io[i].op = "read"})

----------------------------------------------------------------------------
(* The child process: the lines it may write.                              *)

TextBlock(t) == [type |-> "text", text |-> t]

ToolUseBlock(id) == [type |-> "tool_use", id |-> id, name |-> "Bash", input |-> JEmpty]

ToolResultBlock(id) == [type |-> "tool_result", tool_use_id |-> id]

ThinkingBlock(t) == [type |-> "thinking", thinking |-> t, signature |-> "sig"]

AssistantLine(blocks) ==
    [type |-> "assistant", message |-> [content |-> blocks, model |-> "m"]]

AssistantErrorLine(blocks, err) ==
    [type |-> "assistant",
     message |-> [content |-> blocks, model |-> "m", error |-> err]]

UserLine(blocks) == [type |-> "user", message |-> [content |-> blocks]]

InitLine(sid) == [type |-> "system", subtype |-> "init", session_id |-> sid]

SystemErrorLine(e) == [type |-> "system", subtype |-> "error", error |-> e]

ResultLine(turns) ==
    [type |-> "result", subtype |-> "success", duration_ms |-> 1,
     duration_api_ms |-> 1, is_error |-> FALSE, num_turns |-> turns,
     session_id |-> "abc"]

\* A result line carrying the optional structured_output field.
StructuredResultLine(v) ==
    [type |-> "result", subtype |-> "success", duration_ms |-> 1,
     duration_api_ms |-> 1, is_error |-> FALSE, num_turns |-> 1,
     session_id |-> "abc", structured_output |-> v]

ControlRequestLine(n, request) ==
    [type |-> "control_request", request_id |-> <<"req", n>>, request |-> request]

McpMessageRequest(server_name, message) ==
    [subtype |-> "mcp_message", server_name |-> server_name, message |-> message]

HookCallbackRequest(callback_id) ==
    [subtype |-> "hook_callback", callback_id |-> callback_id, input |-> JEmpty]

ControlResponseLine(subtype, rid) ==
    IF subtype = "success"
    THEN [type |-> "control_response",
          response |-> [subtype |-> "success", request_id |-> rid]]
    ELSE [type |-> "control_response",
          response |-> [subtype |-> "error", request_id |-> rid,
                        error |-> [code |-> -32603, message |-> "failed"]]]

\* tools/call JSON-RPC request naming `name`
ToolsCall(name) ==
    JObj([jsonrpc |-> JStr("2.0"), id |-> JNum("7"), method |-> JStr("tools/call"),
          params |-> JObj([name |-> name, arguments |-> JEmpty])])

\* Lines that do not decode as Incoming.
UndecodableLines ==
    { RawLine("not json"),
      JObj([type |-> JStr("assistant"),
            message |-> JObj([model |-> JStr("m"),
                              content |-> JArr(<<JObj([type |-> JStr("text"),
                                                       text |-> JNum(5)])>>)])]) }

\* A line whose bytes are not UTF-8.
NotUtf8Line == BytesLine("ff fe")

\* An init message whose session id is null.
InitLineNullSession ==
    JObj([type |-> JStr("system"), subtype |-> JStr("init"), session_id |-> JNull])

\* An assistant message whose error is written as a map, {"<err>": null}.
AssistantErrorMapLine(err) ==
    JObj([type |-> JStr("assistant"),
          message |-> JObj([content |-> JArr(<<>>), model |-> JStr("m"),
                            error |-> JObj([k \in {err} |-> JNull])])])

\* A set_permission_mode request whose mode is written as a map.
SetModeMapLine(n, mode) ==
    JObj([type |-> JStr("control_request"), request_id |-> JStr(<<"req", n>>),
          request |-> JObj([subtype |-> JStr("set_permission_mode"),
                            mode |-> JObj([k \in {mode} |-> JNull])])])

\* A user message whose content is text.
UserTextLine(text) ==
    JObj([type |-> JStr("user"),
          message |-> JObj([role |-> JStr("user"), content |-> JStr(text)])])

\* Streaming content the child may write, with some control traffic.
DataLines(n) ==
    { IncomingJson(inc) : inc \in {
      InitLine("abc"), InitLine("xyz"),
      AssistantLine(<<TextBlock("hi")>>),
      AssistantLine(<<TextBlock("ab"), TextBlock("cd")>>),
      AssistantLine(<<ThinkingBlock("hm"), ToolUseBlock("tu1"), ToolResultBlock("tu1")>>),
      AssistantErrorLine(<<TextBlock("ab"), TextBlock("cd")>>, "rate_limit"),
      UserLine(<<ToolResultBlock("tu1")>>),
      SystemErrorLine("overloaded"),
      ResultLine(1),
      ControlRequestLine(n, McpMessageRequest("calc", ToolsCall(JStr("echo")))),
      ControlResponseLine("success", <<"uuid", 0>>) } }
    \cup UndecodableLines
    \cup {NotUtf8Line, InitLineNullSession}

\* Control traffic the child may write, with some streaming content.
ControlLines(n) ==
    { IncomingJson(inc) : inc \in
      { ControlRequestLine(n, McpMessageRequest("calc", JObj(m))) :
        m \in { [jsonrpc |-> JStr("2.0"), id |-> JNum("1"), method |-> JStr("initialize")],
                [jsonrpc |-> JStr("2.0"), id |-> JNum("2"), method |-> JStr("tools/list")],
                [jsonrpc |-> JStr("2.0"), method |-> JStr("notifications/initialized")],
                [jsonrpc |-> JStr("2.0"), id |-> JNum("3"), method |-> JStr("ping")] } }
      \cup { ControlRequestLine(n, McpMessageRequest("calc", m)) :
        m \in { ToolsCall(JStr("echo")), ToolsCall(JStr("boom")),
                ToolsCall(JNum("5")) } }
      \cup { ControlRequestLine(n, McpMessageRequest("ghost", ToolsCall(JStr("echo")))) }
      \cup { ControlRequestLine(n, HookCallbackRequest(HookId(k))) : k \in {0, 9} }
      \cup { ControlRequestLine(n, [subtype |-> "interrupt"]),
             ResultLine(1) } }
    \cup { RawLine("not json") }

\* The state of the Transport and of what it owns.  pc is where the
\* transport is: "none" (there is none), "new" (Client::new holds it and is
\* sending Initialize), "live" (a client holds it), "close_wait" (inside
\* close at child.wait()), "closed" (close returned), "dropped"; stdin is
\* whether the handle is held; child is "none", "running" or "exited";
\* stderr_task is "running", "aborting" (abort() was called, the task has not
\* yet stopped), "aborted" or "finished"; stderr holds the diagnostic lines
\* written and not yet drained ("text", or "bytes" for a line that is not
\* UTF-8), stderr_open is whether the child still has its diagnostic stream
\* open, nerr counts the lines written; log lists what happened, in order.
\* Before Transport::new, and after it failed, there is no transport and no
\* child.
NoTransport ==
    [pc |-> "none", stdin |-> FALSE, child |-> "none", stderr_task |-> "none",
     stderr |-> <<>>, stderr_open |-> FALSE, nerr |-> 0, log |-> <<>>]

\* Transport::new: Ok(Self { child, stdin: Some(stdin), stdout, stderr_task }),
\* in the hands of a client.
SpawnedTransport ==
    [pc |-> "live", stdin |-> TRUE, child |-> "running", stderr_task |-> "running",
     stderr |-> <<>>, stderr_open |-> TRUE, nerr |-> 0, log |-> <<>>]

\* There is a client, the value Client::new returned in Ok(client), for a
\* method to be called on.
ClientExists == transport.pc = "live"

\* Drop for Transport: self.stderr_task.abort(), which asks the task to
\* stop; self.child.start_kill(), whose failure is only logged (error!);
\* then the fields are dropped, the handle of the child's input with them.
\* kill_ok is whether start_kill returned Ok: "kill" is the call,
\* "kill_failed" the logged failure.
DropTransport(tr, kill_ok) ==
    [tr EXCEPT !.stderr_task = IF @ = "running" THEN "aborting" ELSE @,
               !.stdin = FALSE,
               !.log = @ \o (IF kill_ok THEN <<"abort", "kill">>
                             ELSE <<"abort", "kill", "kill_failed">>)]

\* The child writes one more line to its stdout.
ChildEmit(lines, max) ==
    /\ transport.child = "running"
    /\ ~child_eof
    /\ n_emitted < max
    /\ \E line \in lines :
           inbuf' = Append(inbuf, line)
    /\ n_emitted' = n_emitted + 1
    /\ UNCHANGED <<history, turn, transport>>
    /\ UNCHANGED <<mcp_servers, hooks, hook_callbacks, child_eof, stdin_open, io,
                   transport_lock, responded_lock, responded_tool_ids, session_id,
                   rpc, run, incoming, response, pending, yielded, handler_calls,
                   host, calls>>

ChildEmitData == ChildEmit(DataLines(n_emitted + 1), MaxLines)

ChildEmitControl == ChildEmit(ControlLines(n_emitted + 1), MaxControlLines)

\* The child closes its stdout (it exits, or is done writing).
ChildCloseStdout ==
    /\ transport.child = "running"
    /\ ~child_eof
    /\ child_eof' = TRUE
    /\ UNCHANGED <<history, turn, transport>>
    /\ UNCHANGED <<mcp_servers, hooks, hook_callbacks, inbuf, n_emitted, stdin_open,
                   io, transport_lock, responded_lock, responded_tool_ids,
                   session_id, rpc, run, incoming, response, pending, yielded,
                   handler_calls, host, calls>>

\* The child stops reading its stdin: later writes fail.
ChildCloseStdin ==
    /\ transport.child = "running"
    /\ stdin_open
    /\ stdin_open' = FALSE
    /\ UNCHANGED <<history, turn, transport>>
    /\ UNCHANGED <<mcp_servers, hooks, hook_callbacks, inbuf, child_eof, n_emitted,
                   io, transport_lock, responded_lock, responded_tool_ids,
                   session_id, rpc, run, incoming, response, pending, yielded,
                   handler_calls, host, calls>>

----------------------------------------------------------------------------
(* Client::receive (client.rs): the stream generator, one action per       *)
(* suspension point.  rpc is "idle" (no stream yet), "lock" (top of the    *)
(* loop, waiting for the transport mutex), "read" (holding it, awaiting a  *)
(* line), "match" (lock released, matching on `incoming`), "respond"       *)
(* (about to write a control response), "yield" (inside the for loop over  *)
(* from_message), "yield_err" or "done" (the stream has ended).            *)

NoIncoming == [tag |-> "Unset"]

\* No TurnBuilder::send is running.
NoTurn == [pc |-> "idle"]

NoResponse == None

\* Mutation of StartReceive: each invocation starts on a fresh buffer,
\* losing the lines already buffered.
StartReceiveFresh ==
    /\ rpc \in {"idle", "done"}
    /\ run < MaxRuns
    /\ run' = run + 1
    /\ rpc' = "lock"
    /\ inbuf' = <<>>
    /\ UNCHANGED <<history, turn, transport>>
    /\ UNCHANGED <<mcp_servers, hooks, hook_callbacks, child_eof, n_emitted,
                   stdin_open, io, transport_lock, responded_lock,
                   responded_tool_ids, session_id, incoming, response, pending,
                   yielded, handler_calls, host, calls>>

\* The host calls receive() and polls the stream.
StartReceive ==
    /\ ClientExists
    /\ rpc \in {"idle", "done"}
    /\ run < MaxRuns
    /\ run' = run + 1
    /\ rpc' = "lock"
    /\ UNCHANGED <<history, turn, transport>>
    /\ UNCHANGED <<mcp_servers, hooks, hook_callbacks, inbuf, child_eof, n_emitted,
                   stdin_open, io, transport_lock, responded_lock,
                   responded_tool_ids, session_id, incoming, response, pending,
                   yielded, handler_calls, host, calls>>

\* let mut transport = self.transport.lock().await;
RecvLock ==
    /\ rpc = "lock"
    /\ transport_lock = "free"
    /\ transport_lock' = "recv"
    /\ rpc' = "read"
    /\ UNCHANGED <<history, turn, transport>>
    /\ UNCHANGED <<mcp_servers, hooks, hook_callbacks, inbuf, child_eof, n_emitted,
                   stdin_open, io, responded_lock, responded_tool_ids, session_id,
                   run, incoming, response, pending, yielded, handler_calls, host,
                   calls>>

\* Mutation of RecvRead: the guard is kept after the read.
RecvReadKeepsLock ==
    /\ rpc = "read"
    /\ inbuf # <<>> \/ child_eof
    /\ IF inbuf # <<>>
       THEN /\ incoming' = [r |-> TransportReceive(Head(inbuf)), n |-> ReadCount + 1]
            /\ io' = Append(io, [op |-> "read", by |-> "recv", run |-> run,
                                 n |-> ReadCount + 1, line |-> Received(Head(inbuf)),
                                 wire |-> Head(inbuf)])
            /\ inbuf' = Tail(inbuf)
       ELSE /\ incoming' = [r |-> TransportReceiveEof, n |-> 0]
            /\ io' = Append(io, [op |-> "eof", by |-> "recv", run |-> run])
            /\ inbuf' = inbuf
    /\ rpc' = "match"
    /\ UNCHANGED <<history, turn, transport>>
    /\ UNCHANGED <<mcp_servers, hooks, hook_callbacks, child_eof, n_emitted,
                   stdin_open, transport_lock, responded_lock, responded_tool_ids,
                   session_id, run, response, pending, yielded, handler_calls, host,
                   calls>>

\* transport.receive().await completes with a line or end-of-stream, and the
\* guard is dropped at the end of the block.
RecvRead ==
    /\ rpc = "read"
    /\ inbuf # <<>> \/ child_eof
    /\ IF inbuf # <<>>
       THEN /\ incoming' = [r |-> TransportReceive(Head(inbuf)), n |-> ReadCount + 1]
            /\ io' = Append(io, [op |-> "read", by |-> "recv", run |-> run,
                                 n |-> ReadCount + 1, line |-> Received(Head(inbuf)),
                                 wire |-> Head(inbuf)])
            /\ inbuf' = Tail(inbuf)
       ELSE /\ incoming' = [r |-> TransportReceiveEof, n |-> 0]
            /\ io' = Append(io, [op |-> "eof", by |-> "recv", run |-> run])
            /\ inbuf' = inbuf
    /\ transport_lock' = "free"
    /\ rpc' = "match"
    /\ UNCHANGED <<history, turn, transport>>
    /\ UNCHANGED <<mcp_servers, hooks, hook_callbacks, child_eof, n_emitted,
                   stdin_open, responded_lock, responded_tool_ids, session_id, run,
                   response, pending, yielded, handler_calls, host, calls>>

\* A yielded Ok(response) of line n in invocation `run`.
OkItem(n, resp) == [run |-> run, n |-> n, ok |-> TRUE, response |-> resp]

\* A yielded Err(e).
ErrItem(n, e) == [run |-> run, n |-> n, ok |-> FALSE, error |-> e]

\* Mutation of ServiceControlRequest: every request kind is acknowledged.
ServiceEveryControlRequest(ctrl) ==
    CASE ctrl.request.subtype = "mcp_message" ->
            Some(handle_mcp_message(ctrl.request_id, ctrl.request.server_name,
                                    ctrl.request.message))
      [] ctrl.request.subtype = "hook_callback" ->
            Some(handle_hook_callback(ctrl.request_id, ctrl.request))
      [] OTHER ->
            Some([envelope |-> ResponseEnvelopeSuccess(ctrl.request_id, EmptyObject),
                  called |-> <<>>])

\* What the control-request arm computes: Some([envelope, called]) for the
\* two serviced kinds, None for `_ => continue`.
ServiceControlRequest(ctrl) ==
    CASE ctrl.request.subtype = "mcp_message" ->
            Some(handle_mcp_message(ctrl.request_id, ctrl.request.server_name,
                                    ctrl.request.message))
      [] ctrl.request.subtype = "hook_callback" ->
            Some(handle_hook_callback(ctrl.request_id, ctrl.request))
      [] OTHER -> None

\* Mutation of SessionIdAfter: the session id is never recorded.
SessionIdNotRecorded(msg) == session_id

\* The session id after a message has been seen.
SessionIdAfter(msg) ==
    IF msg.type = "system" /\ msg.subtype = "init" /\ InitSessionId(msg) # None
    THEN Some(InitSessionId(msg)[1])
    ELSE session_id

\* match incoming { Ok(Some(..)) => .., Ok(None) => return, Err(e) => .. }
RecvMatch ==
    /\ rpc = "match"
    /\ LET r == incoming.r
           n == incoming.n
       IN
       CASE r.tag = "None" ->
              /\ rpc' = "done"
              /\ UNCHANGED <<session_id, response, pending, handler_calls>>
         [] r.tag = "Err" ->
              /\ pending' = <<ErrItem(n, r.error)>>
              /\ rpc' = "yield_err"
              /\ UNCHANGED <<session_id, response, handler_calls>>
         [] r.tag = "Some" ->
              IF as_control_request(r) # None
              THEN LET served == ServiceControlRequest(as_control_request(r)[1]) IN
                   IF served = None
                   THEN /\ rpc' = "lock"
                        /\ UNCHANGED <<session_id, response, pending, handler_calls>>
                   ELSE /\ response' = Some([envelope |-> served[1].envelope, n |-> n])
                        /\ handler_calls' = handler_calls \o
                               [i \in 1..Len(served[1].called) |->
                                   [n |-> n, call |-> served[1].called[i]]]
                        /\ rpc' = "respond"
                        /\ UNCHANGED <<session_id, pending>>
              ELSE IF to_message(r) # None
              THEN LET msg == to_message(r)[1]
                       rs == from_message(msg)
                   IN  /\ session_id' = SessionIdAfter(msg)
                       /\ pending' = [i \in 1..Len(rs) |-> OkItem(n, rs[i])]
                       /\ rpc' = IF rs = <<>> THEN "lock" ELSE "yield"
                       /\ UNCHANGED <<response, handler_calls>>
              ELSE /\ rpc' = "lock"
                   /\ UNCHANGED <<session_id, response, pending, handler_calls>>
    /\ incoming' = NoIncoming
    /\ UNCHANGED <<history, turn, transport>>
    /\ UNCHANGED <<mcp_servers, hooks, hook_callbacks, inbuf, child_eof, n_emitted,
                   stdin_open, io, transport_lock, responded_lock,
                   responded_tool_ids, run, yielded, host, calls>>

\* Mutation of RecvRespondData: a failed send ends the stream with the
\* error.
RecvRespondFailureEndsStream ==
    /\ rpc = "respond"
    /\ transport_lock = "free"
    /\ io' = SendData("recv", response[1].n, response[1].envelope)
    /\ IF SendOk
       THEN /\ transport_lock' = "recv"
            /\ rpc' = "respond_nl"
            /\ UNCHANGED <<response, pending>>
       ELSE /\ response' = NoResponse
            /\ rpc' = "yield_err"
            /\ pending' = <<ErrItem(response[1].n, "Io")>>
            /\ UNCHANGED transport_lock
    /\ UNCHANGED <<history, turn, transport>>
    /\ UNCHANGED <<mcp_servers, hooks, hook_callbacks, inbuf, child_eof, n_emitted,
                   stdin_open, responded_lock, responded_tool_ids, session_id, run,
                   incoming, yielded, handler_calls, host, calls>>

\* Mutation of RecvRespondData: the response is dropped, not sent.
RecvRespondSkipped ==
    /\ rpc = "respond"
    /\ response' = None
    /\ rpc' = "lock"
    /\ UNCHANGED <<history, turn, transport>>
    /\ UNCHANGED <<mcp_servers, hooks, hook_callbacks, inbuf, child_eof, n_emitted,
                   stdin_open, io, transport_lock, responded_lock,
                   responded_tool_ids, session_id, run, incoming, pending, yielded,
                   handler_calls, host, calls>>

\* let mut transport = self.transport.lock().await;
\* transport.send_response(&response).await, up to the message's bytes.  A
\* failure is logged (warn!) and the loop continues.
RecvRespondData ==
    /\ rpc = "respond"
    /\ transport_lock = "free"
    /\ io' = SendData("recv", response[1].n, response[1].envelope)
    /\ IF SendOk
       THEN /\ transport_lock' = "recv"
            /\ rpc' = "respond_nl"
            /\ UNCHANGED response
       ELSE /\ response' = NoResponse
            /\ rpc' = "lock"
            /\ UNCHANGED transport_lock
    /\ UNCHANGED <<history, turn, transport>>
    /\ UNCHANGED <<mcp_servers, hooks, hook_callbacks, inbuf, child_eof, n_emitted,
                   stdin_open, responded_lock, responded_tool_ids, session_id, run,
                   incoming, pending, yielded, handler_calls, host, calls>>

\* The newline and flush of that response: if let Err(e) = .. { warn!(..) }
\* continue; the guard is dropped either way.
RecvRespondNewline ==
    /\ rpc = "respond_nl"
    /\ io' = SendNewline("recv", response[1].n, response[1].envelope)
    /\ transport_lock' = "free"
    /\ response' = NoResponse
    /\ rpc' = "lock"
    /\ UNCHANGED <<history, turn, transport>>
    /\ UNCHANGED <<mcp_servers, hooks, hook_callbacks, inbuf, child_eof, n_emitted,
                   stdin_open, responded_lock, responded_tool_ids, session_id, run,
                   incoming, pending, yielded, handler_calls, host, calls>>

\* Mutation of IsComplete: a result is not recognised as final.
IsCompleteNever(item) == FALSE

\* matches!(response, Response::Complete(_))
IsComplete(item) == item.ok /\ item.response.kind = "Complete"

\* yield Ok(response); if is_complete { return; }
RecvYield ==
    /\ rpc = "yield"
    /\ yielded' = Append(yielded, Head(pending))
    /\ IF IsComplete(Head(pending))
       THEN /\ rpc' = "done"
            /\ pending' = <<>>
       ELSE /\ pending' = Tail(pending)
            /\ rpc' = IF Tail(pending) = <<>> THEN "lock" ELSE "yield"
    /\ UNCHANGED <<history, turn, transport>>
    /\ UNCHANGED <<mcp_servers, hooks, hook_callbacks, inbuf, child_eof, n_emitted,
                   stdin_open, io, transport_lock, responded_lock,
                   responded_tool_ids, session_id, run, incoming, response,
                   handler_calls, host, calls>>

\* Mutation of RecvYieldErr: the loop goes on after yielding the error.
RecvYieldErrContinue ==
    /\ rpc = "yield_err"
    /\ yielded' = Append(yielded, Head(pending))
    /\ pending' = <<>>
    /\ rpc' = "lock"
    /\ UNCHANGED <<history, turn, transport>>
    /\ UNCHANGED <<mcp_servers, hooks, hook_callbacks, inbuf, child_eof, n_emitted,
                   stdin_open, io, transport_lock, responded_lock,
                   responded_tool_ids, session_id, run, incoming, response,
                   handler_calls, host, calls>>

\* Err(e) => { yield Err(e); return; }
RecvYieldErr ==
    /\ rpc = "yield_err"
    /\ yielded' = Append(yielded, Head(pending))
    /\ pending' = <<>>
    /\ rpc' = "done"
    /\ UNCHANGED <<history, turn, transport>>
    /\ UNCHANGED <<mcp_servers, hooks, hook_callbacks, inbuf, child_eof, n_emitted,
                   stdin_open, io, transport_lock, responded_lock,
                   responded_tool_ids, session_id, run, incoming, response,
                   handler_calls, host, calls>>

----------------------------------------------------------------------------
(* Host tasks calling Client::respond_to_tool and                          *)
(* Client::clear_tool_response_tracking (client.rs).                       *)

Tasks == {"h1", "h2"}

ToolUseIds == {"tu1", "tu2"}

Idle == [pc |-> "idle"]

\* OutgoingUserMessage::new(UserContent::Blocks(vec![tool_result]))
ToolResultMessage(tool_use_id, is_error) ==
    [type |-> "user",
     message |-> [role |-> "user",
                  content |-> <<[type |-> "tool_result", tool_use_id |-> tool_use_id,
                                 content |-> JStr("out"), is_error |-> is_error]>>]]

\* Mutation of AlreadyResponded: the membership test is lost.
AlreadyRespondedNever(tool_use_id) == FALSE

\* responded.contains(tool_use_id)
AlreadyResponded(tool_use_id) == tool_use_id \in responded_tool_ids

\* Host calls made so far, completed or in progress.
CallCount == Len(calls) + Cardinality({u \in Tasks : host[u].pc # "idle"})

\* A host task calls respond_to_tool(tool_use_id, content, is_error) with
\* is_error drawn from `flags`, the host making at most `max` calls.
CallRespondToToolUpTo(t, max, flags) ==
    /\ ClientExists
    /\ host[t].pc = "idle"
    /\ CallCount < max
    /\ \E id \in ToolUseIds, is_error \in flags :
           host' = [host EXCEPT ![t] = [pc |-> "responded_lock", id |-> id,
                                        is_error |-> is_error]]
    /\ UNCHANGED <<history, turn, transport>>
    /\ UNCHANGED <<mcp_servers, hooks, hook_callbacks, inbuf, child_eof, n_emitted,
                   stdin_open, io, transport_lock, responded_lock,
                   responded_tool_ids, session_id, rpc, run, incoming, response,
                   pending, yielded, handler_calls, calls>>

CallRespondToTool(t) == CallRespondToToolUpTo(t, MaxCalls, BOOLEAN)

\* Mutation of RespondCheck: the guard on the responded set is dropped
\* after the membership test instead of being held across the send.
RespondCheckUnlocked(t) ==
    /\ host[t].pc = "responded_lock"
    /\ responded_lock = "free"
    /\ IF AlreadyResponded(host[t].id)
       THEN /\ host' = [host EXCEPT ![t] = Idle]
            /\ calls' = Append(calls, [op |-> "respond_to_tool", task |-> t,
                                       id |-> host[t].id, ret |-> "Ok",
                                       wrote |-> FALSE])
       ELSE /\ host' = [host EXCEPT ![t].pc = "transport_lock"]
            /\ UNCHANGED calls
    /\ UNCHANGED <<history, turn, transport>>
    /\ UNCHANGED <<mcp_servers, hooks, hook_callbacks, inbuf, child_eof, n_emitted,
                   stdin_open, io, transport_lock, responded_lock,
                   responded_tool_ids, session_id, rpc, run, incoming, response,
                   pending, yielded, handler_calls>>

\* Mutation of RespondCheck: the transport guard is taken first, the guard
\* on the responded set after it.
RespondCheckTransportFirst(t) ==
    /\ host[t].pc = "responded_lock"
    /\ transport_lock = "free"
    /\ transport_lock' = t
    /\ UNCHANGED <<history, turn, transport>>
    /\ UNCHANGED <<mcp_servers, hooks, hook_callbacks, inbuf, child_eof, n_emitted,
                   stdin_open, io, responded_lock, responded_tool_ids, session_id,
                   rpc, run, incoming, response, pending, yielded, handler_calls,
                   host, calls>>

\* let mut responded = self.responded_tool_ids.lock().await;
\* if responded.contains(tool_use_id) { return Ok(()); }
RespondCheck(t) ==
    /\ host[t].pc = "responded_lock"
    /\ responded_lock = "free"
    /\ IF AlreadyResponded(host[t].id)
       THEN /\ host' = [host EXCEPT ![t] = Idle]
            /\ calls' = Append(calls, [op |-> "respond_to_tool", task |-> t,
                                       id |-> host[t].id, ret |-> "Ok",
                                       wrote |-> FALSE])
            /\ UNCHANGED responded_lock
       ELSE /\ host' = [host EXCEPT ![t].pc = "transport_lock"]
            /\ responded_lock' = t
            /\ UNCHANGED calls
    /\ UNCHANGED <<history, turn, transport>>
    /\ UNCHANGED <<mcp_servers, hooks, hook_callbacks, inbuf, child_eof, n_emitted,
                   stdin_open, io, transport_lock, responded_tool_ids, session_id,
                   rpc, run, incoming, response, pending, yielded, handler_calls>>

\* Mutation of RespondSendData: the id is inserted before the send's
\* outcome is known.
RespondSendInsertFirst(t) ==
    /\ host[t].pc = "transport_lock"
    /\ transport_lock = "free"
    /\ io' = SendData(t, 0, ToolResultMessage(host[t].id, host[t].is_error))
    /\ responded_tool_ids' = responded_tool_ids \cup {host[t].id}
    /\ IF SendOk
       THEN /\ transport_lock' = t
            /\ host' = [host EXCEPT ![t].pc = "respond_nl"]
            /\ UNCHANGED <<responded_lock, calls>>
       ELSE /\ responded_lock' = "free"
            /\ host' = [host EXCEPT ![t] = Idle]
            /\ calls' = Append(calls, [op |-> "respond_to_tool", task |-> t,
                                       id |-> host[t].id, ret |-> "Err",
                                       wrote |-> FALSE])
            /\ UNCHANGED transport_lock
    /\ UNCHANGED <<history, turn, transport>>
    /\ UNCHANGED <<mcp_servers, hooks, hook_callbacks, inbuf, child_eof, n_emitted,
                   stdin_open, session_id, rpc, run, incoming, response, pending,
                   yielded, handler_calls>>

\* self.transport.lock().await.send(&json).await?, up to the message's
\* bytes; a failure returns the error, and both guards are dropped.
RespondSendData(t) ==
    /\ host[t].pc = "transport_lock"
    /\ transport_lock = "free"
    /\ io' = SendData(t, 0, ToolResultMessage(host[t].id, host[t].is_error))
    /\ IF SendOk
       THEN /\ transport_lock' = t
            /\ host' = [host EXCEPT ![t].pc = "respond_nl"]
            /\ UNCHANGED <<responded_lock, calls>>
       ELSE /\ responded_lock' = "free"
            /\ host' = [host EXCEPT ![t] = Idle]
            /\ calls' = Append(calls, [op |-> "respond_to_tool", task |-> t,
                                       id |-> host[t].id, ret |-> "Err",
                                       wrote |-> FALSE])
            /\ UNCHANGED transport_lock
    /\ UNCHANGED <<history, turn, transport>>
    /\ UNCHANGED <<mcp_servers, hooks, hook_callbacks, inbuf, child_eof, n_emitted,
                   stdin_open, responded_tool_ids, session_id, rpc, run, incoming,
                   response, pending, yielded, handler_calls>>

\* The newline and flush of that send, then
\* responded.insert(tool_use_id.to_owned()); Ok(())
RespondSendNewline(t) ==
    /\ host[t].pc = "respond_nl"
    /\ io' = SendNewline(t, 0, ToolResultMessage(host[t].id, host[t].is_error))
    /\ responded_tool_ids' =
           IF SendOk THEN responded_tool_ids \cup {host[t].id}
           ELSE responded_tool_ids
    /\ transport_lock' = "free"
    /\ responded_lock' = "free"
    /\ host' = [host EXCEPT ![t] = Idle]
    /\ calls' = Append(calls, [op |-> "respond_to_tool", task |-> t,
                               id |-> host[t].id,
                               ret |-> IF SendOk THEN "Ok" ELSE "Err",
                               wrote |-> SendOk])
    /\ UNCHANGED <<history, turn, transport>>
    /\ UNCHANGED <<mcp_servers, hooks, hook_callbacks, inbuf, child_eof, n_emitted,
                   stdin_open, session_id, rpc, run, incoming, response, pending,
                   yielded, handler_calls>>

\* Mutation of ClearTracking: the set is left as it is.
ClearTrackingKeeps == responded_tool_ids

\* self.responded_tool_ids.lock().await.clear(): the set afterwards
ClearTracking == {}

\* A host task calls clear_tool_response_tracking(), the host making at most
\* `max` calls.
ClearToolResponseTrackingUpTo(t, max) ==
    /\ ClientExists
    /\ host[t].pc = "idle"
    /\ CallCount < max
    /\ responded_lock = "free"
    /\ responded_tool_ids' = ClearTracking
    /\ calls' = Append(calls, [op |-> "clear_tool_response_tracking", task |-> t])
    /\ UNCHANGED <<history, turn, transport>>
    /\ UNCHANGED <<mcp_servers, hooks, hook_callbacks, inbuf, child_eof, n_emitted,
                   stdin_open, io, transport_lock, responded_lock, session_id, rpc,
                   run, incoming, response, pending, yielded, handler_calls, host>>

ClearToolResponseTracking(t) == ClearToolResponseTrackingUpTo(t, MaxCalls)

----------------------------------------------------------------------------
(* Host-initiated control requests (client.rs, transport.rs) and           *)
(* Client::new.  A request id is a string: a UUID is <<"uuid", k>>, the    *)
(* k-th one generated, and the empty string is <<>>.                       *)

\* Indexes of the log entries where the host began to send a control
\* request: one for every attempt.
HostRequestSends ==
    {i \in 1..Len(io) :
        /\ io[i].op \in {"bytes", "write_failed"}
        /\ io[i].by # "recv"
        /\ io[i].line.type = "control_request"}

\* Mutation of NowV7: the generator repeats one value.
NowV7Repeats == <<"uuid", 0>>

\* uuid::Uuid::now_v7(): a value no earlier call returned.
NowV7 ==
    <<"uuid", Cardinality({i \in HostRequestSends : io[i].line.request_id # <<>>})>>

\* RequestEnvelope::new_with(request_id, request)
RequestEnvelopeNewWith(request_id, request) ==
    [type |-> "control_request", request_id |-> request_id, request |-> request]

\* RequestEnvelope::new(request)
RequestEnvelopeNew(request) == RequestEnvelopeNewWith(NowV7, request)

\* RequestEnvelope::interrupt(request_id)
RequestEnvelopeInterrupt(request_id) ==
    RequestEnvelopeNewWith(request_id, [subtype |-> "interrupt"])

\* OutgoingUserMessage::text(prompt)
QueryMessage(prompt) ==
    [type |-> "user", message |-> [role |-> "user", content |-> prompt]]

\* Client::new: Transport::new(&transport_options).await? fails, the
\* child could not be spawned: nothing is written, and there is neither a
\* child nor a transport nor a client.
ClientSpawnFails ==
    /\ transport.pc = "none"
    /\ io = <<>>
    /\ io' = <<[op |-> "spawn_failed", by |-> "new"]>>
    /\ UNCHANGED <<history, turn, transport>>
    /\ UNCHANGED <<mcp_servers, hooks, hook_callbacks, inbuf, child_eof, n_emitted,
                   stdin_open, transport_lock, responded_lock, responded_tool_ids,
                   session_id, rpc, run, incoming, response, pending, yielded,
                   handler_calls, host, calls>>

\* Client::new: Transport::new(&transport_options).await? returns the
\* transport of a spawned child, which Client::new holds in `client`.
ClientSpawn ==
    /\ transport.pc = "none"
    /\ io = <<>>
    /\ transport' = [SpawnedTransport EXCEPT !.pc = "new"]
    /\ UNCHANGED <<history, turn>>
    /\ UNCHANGED <<mcp_servers, hooks, hook_callbacks, inbuf, child_eof, n_emitted,
                   stdin_open, io, transport_lock, responded_lock,
                   responded_tool_ids, session_id, rpc, run, incoming, response,
                   pending, yielded, handler_calls, host, calls>>

\* Mutation of ClientNewData: the result of initialize() is not looked at,
\* and the client is handed out after a failed write.
ClientNewDataUnchecked ==
    /\ transport.pc = "new"
    /\ io = <<>>
    /\ transport_lock = "free"
    /\ io' = SendData("new", 0, InitializeEnvelope(hooks))
    /\ IF SendOk
       THEN /\ transport_lock' = "new"
            /\ UNCHANGED transport
       ELSE /\ transport_lock' = "free"
            /\ transport' = [transport EXCEPT !.pc = "live"]
    /\ UNCHANGED <<history, turn>>
    /\ UNCHANGED <<mcp_servers, hooks, hook_callbacks, inbuf, child_eof, n_emitted,
                   stdin_open, responded_lock, responded_tool_ids,
                   session_id, rpc, run, incoming, response, pending, yielded,
                   handler_calls, host, calls>>

\* Client::new: client.initialize().await? up to the bytes of the
\* Initialize request.  When the write fails, `?` returns the error and
\* `client` is dropped, the transport with it.
ClientNewData ==
    /\ transport.pc = "new"
    /\ io = <<>>
    /\ transport_lock = "free"
    /\ io' = SendData("new", 0, InitializeEnvelope(hooks))
    /\ IF SendOk
       THEN /\ transport_lock' = "new"
            /\ UNCHANGED transport
       ELSE /\ transport_lock' = "free"
            /\ \E kill_ok \in BOOLEAN :
                   transport' = [DropTransport(transport, kill_ok)
                                     EXCEPT !.pc = "dropped"]
    /\ UNCHANGED <<history, turn>>
    /\ UNCHANGED <<mcp_servers, hooks, hook_callbacks, inbuf, child_eof, n_emitted,
                   stdin_open, responded_lock, responded_tool_ids,
                   session_id, rpc, run, incoming, response, pending, yielded,
                   handler_calls, host, calls>>

\* The newline and flush of the Initialize request: Ok(client) when they
\* succeed; when they fail, `?` returns the error and `client` is dropped,
\* the transport with it.
ClientNewNewline ==
    /\ transport.pc = "new"
    /\ transport_lock = "new"
    /\ io' = SendNewline("new", 0, io[1].line)
    /\ transport_lock' = "free"
    /\ IF SendOk
       THEN transport' = [transport EXCEPT !.pc = "live"]
       ELSE \E kill_ok \in BOOLEAN :
                transport' = [DropTransport(transport, kill_ok)
                                  EXCEPT !.pc = "dropped"]
    /\ UNCHANGED <<history, turn>>
    /\ UNCHANGED <<mcp_servers, hooks, hook_callbacks, inbuf, child_eof, n_emitted,
                   stdin_open, responded_lock, responded_tool_ids,
                   session_id, rpc, run, incoming, response, pending, yielded,
                   handler_calls, host, calls>>

\* The methods that lock the transport, send one line and return the
\* send's result: self.transport.lock().await.send(..).await
SendOps == {"query", "send_message", "interrupt", "set_permission_mode", "set_model"}

\* The message a method sends.  A fresh request id is a value no other
\* request has, whenever it is drawn; it is drawn here when the line is
\* written.
MessageOf(op) ==
    CASE op = "query" -> QueryMessage("hello")
      [] op = "send_message" -> ToolResultMessage("tu1", FALSE)
      [] op = "interrupt" -> RequestEnvelopeInterrupt(<<>>)
      [] op = "set_permission_mode" ->
            RequestEnvelopeNew([subtype |-> "set_permission_mode", mode |-> "plan"])
      [] op = "set_model" -> RequestEnvelopeNew([subtype |-> "set_model", model |-> "m2"])

\* A host task calls the method `op` and reaches self.transport.lock().await.
CallSendOp(t, op) ==
    /\ ClientExists
    /\ host[t].pc = "idle"
    /\ CallCount < MaxHostCalls
    /\ host' = [host EXCEPT ![t] = [pc |-> "send_lock", op |-> op]]
    /\ UNCHANGED <<history, turn, transport>>
    /\ UNCHANGED <<mcp_servers, hooks, hook_callbacks, inbuf, child_eof, n_emitted,
                   stdin_open, io, transport_lock, responded_lock,
                   responded_tool_ids, session_id, rpc, run, incoming, response,
                   pending, yielded, handler_calls, calls>>

\* A host task calls one of `ops`, a subset of SendOps.
CallSendOf(t, ops) == \E op \in ops \cap SendOps : CallSendOp(t, op)

\* Mutation of SendWriteData: the message is written without the guard.
SendWriteDataUnguarded(t) ==
    /\ host[t].pc = "send_lock"
    /\ io' = SendData(t, 0, MessageOf(host[t].op))
    /\ IF SendOk
       THEN /\ host' = [host EXCEPT ![t] = [pc |-> "send_nl", op |-> host[t].op,
                                            line |-> MessageOf(host[t].op)]]
            /\ UNCHANGED <<transport_lock, calls>>
       ELSE /\ host' = [host EXCEPT ![t] = Idle]
            /\ calls' = Append(calls, [op |-> host[t].op, task |-> t, ret |-> "Err"])
            /\ UNCHANGED transport_lock
    /\ UNCHANGED <<history, turn, transport>>
    /\ UNCHANGED <<mcp_servers, hooks, hook_callbacks, inbuf, child_eof, n_emitted,
                   stdin_open, responded_lock, responded_tool_ids, session_id, rpc,
                   run, incoming, response, pending, yielded, handler_calls>>

\* self.transport.lock().await, then in Transport::send:
\* stdin.write_all(data.as_bytes()).await?;
SendWriteData(t) ==
    /\ host[t].pc = "send_lock"
    /\ transport_lock = "free"
    /\ io' = SendData(t, 0, MessageOf(host[t].op))
    /\ IF SendOk
       THEN /\ transport_lock' = t
            /\ host' = [host EXCEPT ![t] = [pc |-> "send_nl", op |-> host[t].op,
                                            line |-> MessageOf(host[t].op)]]
            /\ UNCHANGED calls
       ELSE /\ host' = [host EXCEPT ![t] = Idle]
            /\ calls' = Append(calls, [op |-> host[t].op, task |-> t, ret |-> "Err"])
            /\ UNCHANGED transport_lock
    /\ UNCHANGED <<history, turn, transport>>
    /\ UNCHANGED <<mcp_servers, hooks, hook_callbacks, inbuf, child_eof, n_emitted,
                   stdin_open, responded_lock, responded_tool_ids, session_id, rpc,
                   run, incoming, response, pending, yielded, handler_calls>>

\* stdin.write_all(b"\n").await?; stdin.flush().await?; Ok(()): the method
\* returns the outcome and its guard is dropped.
SendWriteNewline(t) ==
    /\ host[t].pc = "send_nl"
    /\ io' = SendNewline(t, 0, host[t].line)
    /\ host' = [host EXCEPT ![t] = Idle]
    /\ transport_lock' = "free"
    /\ calls' = Append(calls, [op |-> host[t].op, task |-> t,
                               ret |-> IF SendOk THEN "Ok" ELSE "Err"])
    /\ UNCHANGED <<history, turn, transport>>
    /\ UNCHANGED <<mcp_servers, hooks, hook_callbacks, inbuf, child_eof, n_emitted,
                   stdin_open, responded_lock, responded_tool_ids, session_id, rpc,
                   run, incoming, response, pending, yielded, handler_calls>>

\* Client::query
Query(t) == CallSendOp(t, "query")

\* Client::send_message
SendMessage(t) == CallSendOp(t, "send_message")

\* Client::interrupt -> Transport::interrupt
Interrupt(t) == CallSendOp(t, "interrupt")

\* Client::set_permission_mode
SetPermissionMode(t) == CallSendOp(t, "set_permission_mode")

\* Client::set_model
SetModel(t) == CallSendOp(t, "set_model")

\* serde_json::from_value::<ServerInfo>(data): `version` is required, the
\* three lists default to empty, and the extras are flattened.
ServerInfoDecodes(data) ==
    /\ IsObj(data)
    /\ Req(data.v, "version", IsStr)
    /\ Dflt(data.v, "capabilities", IsStrings)
    /\ Dflt(data.v, "commands", IsStrings)
    /\ Dflt(data.v, "outputStyles", IsStrings)

\* The strings of a Vec<String> member, empty when it is absent.
StringsOf(o, k) ==
    IF k \in DOMAIN o THEN [i \in 1..Len(o[k].v) |-> o[k].v[i].v] ELSE <<>>

\* The ServerInfo a decodable value yields.
ServerInfoOf(data) ==
    [version |-> data.v.version.v,
     capabilities |-> StringsOf(data.v, "capabilities"),
     commands |-> StringsOf(data.v, "commands"),
     output_styles |-> StringsOf(data.v, "outputStyles")]

\* Mutation of ControlErrorOf: the request's own id is reported.
ControlErrorOfOwn(request_id, err) ==
    [tag |-> "Err", error |-> "ControlError", request_id |-> request_id,
     message |-> err.error.message]

\* Error::ControlError { request_id: err.request_id(), message: .. } for
\* the error response `err`; request_id is get_server_info's own id.
ControlErrorOf(request_id, err) ==
    [tag |-> "Err", error |-> "ControlError", request_id |-> err.request_id,
     message |-> err.error.message]

\* What one turn of get_server_info's loop does with transport.receive()'s
\* result r: [tag |-> "Continue"] or the value the call returns.
GetServerInfoStep(request_id, r) ==
    CASE r.tag = "Err" -> [tag |-> "Err", error |-> r.error]
      [] r.tag = "None" -> [tag |-> "Err", error |-> "ConnectionError"]
      [] r.tag = "Some" /\ r.variant = "ControlResponse" ->
            LET resp == r.value.response IN
            IF resp.subtype = "success"
            THEN IF "response" \in DOMAIN resp
                 THEN IF ServerInfoDecodes(resp.response)
                      THEN [tag |-> "Ok", info |-> ServerInfoOf(resp.response)]
                      ELSE [tag |-> "Err", error |-> "Json"]
                 ELSE [tag |-> "Err", error |-> "ProtocolError"]
            ELSE ControlErrorOf(request_id, resp)
      [] OTHER -> [tag |-> "Continue"]

\* A host task calls get_server_info().
CallGetServerInfo(t) ==
    /\ ClientExists
    /\ host[t].pc = "idle"
    /\ CallCount < MaxHostCalls
    /\ host' = [host EXCEPT ![t] = [pc |-> "gsi_lock"]]
    /\ UNCHANGED <<history, turn, transport>>
    /\ UNCHANGED <<mcp_servers, hooks, hook_callbacks, inbuf, child_eof, n_emitted,
                   stdin_open, io, transport_lock, responded_lock,
                   responded_tool_ids, session_id, rpc, run, incoming, response,
                   pending, yielded, handler_calls, calls>>

\* Mutation of GetServerInfoSendNewline: the guard is dropped once the
\* request is written.
GetServerInfoSendUnlocked(t) ==
    /\ host[t].pc = "gsi_nl"
    /\ io' = SendNewline(t, 0, host[t].line)
    /\ transport_lock' = "free"
    /\ IF SendOk
       THEN /\ host' = [host EXCEPT ![t] = [pc |-> "gsi_drain",
                                            request_id |-> host[t].line.request_id]]
            /\ UNCHANGED calls
       ELSE /\ host' = [host EXCEPT ![t] = Idle]
            /\ calls' = Append(calls, [op |-> "get_server_info", task |-> t,
                                       request_id |-> host[t].line.request_id,
                                       consumed |-> 0,
                                       ret |-> [tag |-> "Err", error |-> "Io"]])
    /\ UNCHANGED <<history, turn, transport>>
    /\ UNCHANGED <<mcp_servers, hooks, hook_callbacks, inbuf, child_eof, n_emitted,
                   stdin_open, responded_lock, responded_tool_ids, session_id, rpc,
                   run, incoming, response, pending, yielded, handler_calls>>

\* let mut transport = self.transport.lock().await;
\* transport.send_request(&envelope).await?; up to the request's bytes.
GetServerInfoSendData(t) ==
    /\ host[t].pc = "gsi_lock"
    /\ transport_lock = "free"
    /\ io' = SendData(t, 0, RequestEnvelopeNew([subtype |-> "get_server_info"]))
    /\ IF SendOk
       THEN /\ transport_lock' = t
            /\ host' = [host EXCEPT ![t] =
                   [pc |-> "gsi_nl",
                    line |-> RequestEnvelopeNew([subtype |-> "get_server_info"])]]
            /\ UNCHANGED calls
       ELSE /\ host' = [host EXCEPT ![t] = Idle]
            /\ calls' = Append(calls, [op |-> "get_server_info", task |-> t,
                                       request_id |-> NowV7, consumed |-> 0,
                                       ret |-> [tag |-> "Err", error |-> "Io"]])
            /\ UNCHANGED transport_lock
    /\ UNCHANGED <<history, turn, transport>>
    /\ UNCHANGED <<mcp_servers, hooks, hook_callbacks, inbuf, child_eof, n_emitted,
                   stdin_open, responded_lock, responded_tool_ids, session_id, rpc,
                   run, incoming, response, pending, yielded, handler_calls>>

\* The newline and flush of the request; the guard is kept for the loop
\* that follows, and dropped when the send fails.
GetServerInfoSendNewline(t) ==
    /\ host[t].pc = "gsi_nl"
    /\ io' = SendNewline(t, 0, host[t].line)
    /\ IF SendOk
       THEN /\ host' = [host EXCEPT ![t] = [pc |-> "gsi_drain",
                                            request_id |-> host[t].line.request_id]]
            /\ UNCHANGED <<calls, transport_lock>>
       ELSE /\ host' = [host EXCEPT ![t] = Idle]
            /\ transport_lock' = "free"
            /\ calls' = Append(calls, [op |-> "get_server_info", task |-> t,
                                       request_id |-> host[t].line.request_id,
                                       consumed |-> 0,
                                       ret |-> [tag |-> "Err", error |-> "Io"]])
    /\ UNCHANGED <<history, turn, transport>>
    /\ UNCHANGED <<mcp_servers, hooks, hook_callbacks, inbuf, child_eof, n_emitted,
                   stdin_open, responded_lock, responded_tool_ids, session_id, rpc,
                   run, incoming, response, pending, yielded, handler_calls>>

\* Mutation of GetServerInfoRead: an init message met while draining is
\* acted on as receive() would.
GetServerInfoReadRecordsSession(t) ==
    /\ host[t].pc = "gsi_drain"
    /\ inbuf # <<>> \/ child_eof
    /\ LET r == IF inbuf # <<>> THEN TransportReceive(Head(inbuf))
                ELSE TransportReceiveEof
           n == IF inbuf # <<>> THEN ReadCount + 1 ELSE 0
           out == GetServerInfoStep(host[t].request_id, r)
       IN  /\ io' = IF inbuf # <<>>
                    THEN Append(io, [op |-> "read", by |-> t, run |-> 0, n |-> n,
                                     line |-> Received(Head(inbuf)),
                                 wire |-> Head(inbuf)])
                    ELSE Append(io, [op |-> "eof", by |-> t, run |-> 0])
           /\ inbuf' = IF inbuf # <<>> THEN Tail(inbuf) ELSE inbuf
           /\ session_id' = IF r.tag = "Some" /\ to_message(r) # None
                            THEN SessionIdAfter(to_message(r)[1])
                            ELSE session_id
           /\ IF out.tag = "Continue"
              THEN UNCHANGED <<host, calls, transport_lock>>
              ELSE /\ host' = [host EXCEPT ![t] = Idle]
                   /\ transport_lock' = "free"
                   /\ calls' = Append(calls, [op |-> "get_server_info", task |-> t,
                                              request_id |-> host[t].request_id,
                                              consumed |-> n, ret |-> out])
    /\ UNCHANGED <<history, turn, transport>>
    /\ UNCHANGED <<mcp_servers, hooks, hook_callbacks, child_eof, n_emitted,
                   stdin_open, responded_lock, responded_tool_ids, rpc,
                   run, incoming, response, pending, yielded, handler_calls>>

\* loop { match transport.receive().await? { .. } }: one turn, holding the
\* transport guard taken before the send.
GetServerInfoRead(t) ==
    /\ host[t].pc = "gsi_drain"
    /\ inbuf # <<>> \/ child_eof
    /\ LET r == IF inbuf # <<>> THEN TransportReceive(Head(inbuf))
                ELSE TransportReceiveEof
           n == IF inbuf # <<>> THEN ReadCount + 1 ELSE 0
           out == GetServerInfoStep(host[t].request_id, r)
       IN  /\ io' = IF inbuf # <<>>
                    THEN Append(io, [op |-> "read", by |-> t, run |-> 0, n |-> n,
                                     line |-> Received(Head(inbuf)),
                                 wire |-> Head(inbuf)])
                    ELSE Append(io, [op |-> "eof", by |-> t, run |-> 0])
           /\ inbuf' = IF inbuf # <<>> THEN Tail(inbuf) ELSE inbuf
           /\ IF out.tag = "Continue"
              THEN UNCHANGED <<host, calls, transport_lock>>
              ELSE /\ host' = [host EXCEPT ![t] = Idle]
                   /\ transport_lock' = "free"
                   /\ calls' = Append(calls, [op |-> "get_server_info", task |-> t,
                                              request_id |-> host[t].request_id,
                                              consumed |-> n, ret |-> out])
    /\ UNCHANGED <<history, turn, transport>>
    /\ UNCHANGED <<mcp_servers, hooks, hook_callbacks, child_eof, n_emitted,
                   stdin_open, responded_lock, responded_tool_ids, session_id, rpc,
                   run, incoming, response, pending, yielded, handler_calls>>

----------------------------------------------------------------------------
(* Two receive() streams polled by two host tasks (client.rs 253-313).     *)
(* The child's output is taken as the pieces read_line gets: a line        *)
(* arrives as two pieces, [n, half, cut, line], the second ending in the   *)
(* newline; cut says where the line is split: "mid" inside the message's   *)
(* text, "end" between the text and the newline.  The child may close its  *)
(* output between the two.  A stream lives in host[t]: its position pc     *)
(* ("s_lock", "s_read", "s_match", "s_respond", "s_respond_nl", "s_yield", *)
(* "s_yield_err", "s_done"),                                               *)
(* the pieces read_line has gathered, and the loop's locals.               *)

\* How many lines the child writes for the two streams.
MaxStreamLines == 2

\* Where a line may be split in two.
Cuts == {"mid", "end"}

\* The two pieces of the n-th line.
Pieces(n, line, cut) ==
    <<[n |-> n, half |-> 1, cut |-> cut, line |-> line],
      [n |-> n, half |-> 2, cut |-> cut, line |-> line]>>

\* What the child may write as its n-th line.
StreamLines(n) ==
    { IncomingJson(inc) : inc \in
      { AssistantLine(<<TextBlock("ab"), TextBlock("cd")>>),
        ResultLine(1),
        ControlRequestLine(n, McpMessageRequest("calc", ToolsCall(JStr("echo")))) } }
    \cup { RawLine("not json") }

\* The pieces the streams have taken so far, in order.
PieceLog == SelectSeq(io, LAMBDA e : e.op = "piece")

\* The child has written the first piece of a line and not the second: the
\* piece it wrote last, still buffered or already taken, is a first one.
MidLine ==
    IF inbuf # <<>> THEN Last(inbuf).half = 1
    ELSE PieceLog # <<>> /\ Last(PieceLog).half = 1

\* The piece the child wrote last.
LastPiece == IF inbuf # <<>> THEN Last(inbuf) ELSE Last(PieceLog)

\* The child writes the first piece of one more line.
ChildEmitPieces ==
    /\ ~child_eof
    /\ ~MidLine
    /\ n_emitted < MaxStreamLines
    /\ \E line \in StreamLines(n_emitted + 1), cut \in Cuts :
           inbuf' = Append(inbuf, Pieces(n_emitted + 1, line, cut)[1])
    /\ n_emitted' = n_emitted + 1
    /\ UNCHANGED <<history, turn, transport>>
    /\ UNCHANGED <<mcp_servers, hooks, hook_callbacks, child_eof, stdin_open, io,
                   transport_lock, responded_lock, responded_tool_ids, session_id,
                   rpc, run, incoming, response, pending, yielded, handler_calls,
                   host, calls>>

\* The child writes the rest of the line it has begun, with the newline.
ChildEmitRest ==
    /\ ~child_eof
    /\ MidLine
    /\ inbuf' = Append(inbuf, Pieces(LastPiece.n, LastPiece.line, LastPiece.cut)[2])
    /\ UNCHANGED n_emitted
    /\ UNCHANGED <<history, turn, transport>>
    /\ UNCHANGED <<mcp_servers, hooks, hook_callbacks, child_eof, stdin_open, io,
                   transport_lock, responded_lock, responded_tool_ids, session_id,
                   rpc, run, incoming, response, pending, yielded, handler_calls,
                   host, calls>>

\* A stream at position pc with the given locals.
StreamAt(pc, buf, inc, resp, pend) ==
    [pc |-> pc, buf |-> buf, incoming |-> inc, response |-> resp, pending |-> pend]

\* A host task calls receive() and polls the stream.
StreamStart(t) ==
    /\ ClientExists
    /\ host[t].pc \in {"idle", "s_done"}
    /\ run < MaxRuns
    /\ run' = run + 1
    /\ host' = [host EXCEPT ![t] = StreamAt("s_lock", <<>>, NoIncoming, NoResponse, <<>>)]
    /\ UNCHANGED <<history, turn, transport>>
    /\ UNCHANGED <<mcp_servers, hooks, hook_callbacks, inbuf, child_eof, n_emitted,
                   stdin_open, io, transport_lock, responded_lock,
                   responded_tool_ids, session_id, rpc, incoming, response, pending,
                   yielded, handler_calls, calls>>

\* Mutation of StreamLock: the stream reads without the transport guard.
StreamLockShared(t) ==
    /\ host[t].pc = "s_lock"
    /\ host' = [host EXCEPT ![t].pc = "s_read"]
    /\ UNCHANGED <<history, turn, transport>>
    /\ UNCHANGED <<mcp_servers, hooks, hook_callbacks, inbuf, child_eof, n_emitted,
                   stdin_open, io, transport_lock, responded_lock,
                   responded_tool_ids, session_id, rpc, run, incoming, response,
                   pending, yielded, handler_calls, calls>>

\* let mut transport = self.transport.lock().await;
StreamLock(t) ==
    /\ host[t].pc = "s_lock"
    /\ transport_lock = "free"
    /\ transport_lock' = t
    /\ host' = [host EXCEPT ![t].pc = "s_read"]
    /\ UNCHANGED <<history, turn, transport>>
    /\ UNCHANGED <<mcp_servers, hooks, hook_callbacks, inbuf, child_eof, n_emitted,
                   stdin_open, io, responded_lock, responded_tool_ids, session_id,
                   rpc, run, incoming, response, pending, yielded, handler_calls,
                   calls>>

\* What read_line returns for the pieces it gathered, up to a newline or
\* to the end of the stream: the line when they are the two pieces of one
\* line, or its whole text without the newline; the beginning of a message
\* alone, and any other gathering, is text that is no message.
LineOfPieces(buf) ==
    IF Len(buf) = 2 /\ buf = Pieces(buf[1].n, buf[1].line, buf[1].cut)
    THEN buf[1].line
    ELSE IF Len(buf) = 1 /\ buf[1].half = 1
    THEN IF buf[1].cut = "end" THEN buf[1].line ELSE RawLine("truncated")
    ELSE RawLine("torn")

\* transport.receive().await: read_line takes the next piece of the child's
\* output; at the newline the line is decoded and the guard dropped.  At
\* end-of-stream read_line returns what it has gathered as the last line;
\* with nothing gathered it returns None.
StreamRead(t) ==
    /\ host[t].pc = "s_read"
    /\ inbuf # <<>> \/ child_eof
    /\ IF inbuf # <<>>
       THEN LET c == Head(inbuf)
                buf == Append(host[t].buf, c)
                piece == [op |-> "piece", by |-> t, n |-> c.n, half |-> c.half,
                          cut |-> c.cut, line |-> c.line]
            IN  /\ inbuf' = Tail(inbuf)
                /\ IF c.half = 2
                   THEN /\ io' = io \o <<piece, [op |-> "read", by |-> t, run |-> 0,
                                                 n |-> ReadCount + 1,
                                                 line |-> Received(LineOfPieces(buf)),
                                                 wire |-> LineOfPieces(buf)]>>
                        /\ host' = [host EXCEPT ![t] =
                               StreamAt("s_match", <<>>,
                                        [r |-> TransportReceive(LineOfPieces(buf)),
                                         n |-> ReadCount + 1],
                                        NoResponse, <<>>)]
                        /\ transport_lock' = "free"
                   ELSE /\ io' = Append(io, piece)
                        /\ host' = [host EXCEPT ![t].buf = buf]
                        /\ UNCHANGED transport_lock
       ELSE IF host[t].buf # <<>>
       THEN /\ io' = Append(io, [op |-> "read", by |-> t, run |-> 0,
                                 n |-> ReadCount + 1,
                                 line |-> Received(LineOfPieces(host[t].buf)),
                                 wire |-> LineOfPieces(host[t].buf)])
            /\ host' = [host EXCEPT ![t] =
                   StreamAt("s_match", <<>>,
                            [r |-> TransportReceive(LineOfPieces(host[t].buf)),
                             n |-> ReadCount + 1],
                            NoResponse, <<>>)]
            /\ transport_lock' = "free"
            /\ UNCHANGED inbuf
       ELSE /\ io' = Append(io, [op |-> "eof", by |-> t, run |-> 0])
            /\ host' = [host EXCEPT ![t] =
                   StreamAt("s_match", <<>>, [r |-> TransportReceiveEof, n |-> 0],
                            NoResponse, <<>>)]
            /\ transport_lock' = "free"
            /\ UNCHANGED inbuf
    /\ UNCHANGED <<history, turn, transport>>
    /\ UNCHANGED <<mcp_servers, hooks, hook_callbacks, child_eof, n_emitted,
                   stdin_open, responded_lock, responded_tool_ids, session_id, rpc,
                   run, incoming, response, pending, yielded, handler_calls, calls>>

\* An item a task's stream yields for line n.
StreamOkItem(t, n, resp) == [by |-> t, n |-> n, ok |-> TRUE, response |-> resp]

StreamErrItem(t, n, e) == [by |-> t, n |-> n, ok |-> FALSE, error |-> e]

\* match incoming { Ok(Some(..)) => .., Ok(None) => return, Err(e) => .. }
StreamMatch(t) ==
    /\ host[t].pc = "s_match"
    /\ LET r == host[t].incoming.r
           n == host[t].incoming.n
       IN
       CASE r.tag = "None" ->
              /\ host' = [host EXCEPT ![t] = [pc |-> "s_done"]]
              /\ UNCHANGED <<session_id, handler_calls>>
         [] r.tag = "Err" ->
              /\ host' = [host EXCEPT ![t] =
                     StreamAt("s_yield_err", <<>>, NoIncoming, NoResponse,
                              <<StreamErrItem(t, n, r.error)>>)]
              /\ UNCHANGED <<session_id, handler_calls>>
         [] r.tag = "Some" ->
              IF as_control_request(r) # None
              THEN LET served == ServiceControlRequest(as_control_request(r)[1]) IN
                   IF served = None
                   THEN /\ host' = [host EXCEPT ![t] =
                               StreamAt("s_lock", <<>>, NoIncoming, NoResponse, <<>>)]
                        /\ UNCHANGED <<session_id, handler_calls>>
                   ELSE /\ host' = [host EXCEPT ![t] =
                               StreamAt("s_respond", <<>>, NoIncoming,
                                        Some([envelope |-> served[1].envelope, n |-> n]),
                                        <<>>)]
                        /\ handler_calls' = handler_calls \o
                               [i \in 1..Len(served[1].called) |->
                                   [n |-> n, call |-> served[1].called[i]]]
                        /\ UNCHANGED session_id
              ELSE IF to_message(r) # None
              THEN LET msg == to_message(r)[1]
                       rs == from_message(msg)
                   IN  /\ session_id' = SessionIdAfter(msg)
                       /\ host' = [host EXCEPT ![t] =
                              StreamAt(IF rs = <<>> THEN "s_lock" ELSE "s_yield", <<>>,
                                       NoIncoming, NoResponse,
                                       [i \in 1..Len(rs) |-> StreamOkItem(t, n, rs[i])])]
                       /\ UNCHANGED handler_calls
              ELSE /\ host' = [host EXCEPT ![t] =
                          StreamAt("s_lock", <<>>, NoIncoming, NoResponse, <<>>)]
                   /\ UNCHANGED <<session_id, handler_calls>>
    /\ UNCHANGED <<history, turn, transport>>
    /\ UNCHANGED <<mcp_servers, hooks, hook_callbacks, inbuf, child_eof, n_emitted,
                   stdin_open, io, transport_lock, responded_lock,
                   responded_tool_ids, rpc, run, incoming, response, pending,
                   yielded, calls>>

\* let mut transport = self.transport.lock().await;
\* transport.send_response(&response).await, up to the message's bytes.
StreamRespondData(t) ==
    /\ host[t].pc = "s_respond"
    /\ transport_lock = "free"
    /\ io' = SendData(t, host[t].response[1].n, host[t].response[1].envelope)
    /\ IF SendOk
       THEN /\ transport_lock' = t
            /\ host' = [host EXCEPT ![t].pc = "s_respond_nl"]
       ELSE /\ host' = [host EXCEPT ![t] =
                   StreamAt("s_lock", <<>>, NoIncoming, NoResponse, <<>>)]
            /\ UNCHANGED transport_lock
    /\ UNCHANGED <<history, turn, transport>>
    /\ UNCHANGED <<mcp_servers, hooks, hook_callbacks, inbuf, child_eof, n_emitted,
                   stdin_open, responded_lock, responded_tool_ids,
                   session_id, rpc, run, incoming, response, pending, yielded,
                   handler_calls, calls>>

\* The newline and flush of that response; continue;
StreamRespondNewline(t) ==
    /\ host[t].pc = "s_respond_nl"
    /\ io' = SendNewline(t, host[t].response[1].n, host[t].response[1].envelope)
    /\ transport_lock' = "free"
    /\ host' = [host EXCEPT ![t] = StreamAt("s_lock", <<>>, NoIncoming, NoResponse, <<>>)]
    /\ UNCHANGED <<history, turn, transport>>
    /\ UNCHANGED <<mcp_servers, hooks, hook_callbacks, inbuf, child_eof, n_emitted,
                   stdin_open, responded_lock, responded_tool_ids,
                   session_id, rpc, run, incoming, response, pending, yielded,
                   handler_calls, calls>>

\* yield Ok(response); if is_complete { return; }
StreamYield(t) ==
    /\ host[t].pc = "s_yield"
    /\ yielded' = Append(yielded, Head(host[t].pending))
    /\ host' = [host EXCEPT ![t] =
           IF IsComplete(Head(host[t].pending))
           THEN [pc |-> "s_done"]
           ELSE StreamAt(IF Tail(host[t].pending) = <<>> THEN "s_lock" ELSE "s_yield",
                         <<>>, NoIncoming, NoResponse, Tail(host[t].pending))]
    /\ UNCHANGED <<history, turn, transport>>
    /\ UNCHANGED <<mcp_servers, hooks, hook_callbacks, inbuf, child_eof, n_emitted,
                   stdin_open, io, transport_lock, responded_lock,
                   responded_tool_ids, session_id, rpc, run, incoming, response,
                   pending, handler_calls, calls>>

\* Err(e) => { yield Err(e); return; }
StreamYieldErr(t) ==
    /\ host[t].pc = "s_yield_err"
    /\ yielded' = Append(yielded, Head(host[t].pending))
    /\ host' = [host EXCEPT ![t] = [pc |-> "s_done"]]
    /\ UNCHANGED <<history, turn, transport>>
    /\ UNCHANGED <<mcp_servers, hooks, hook_callbacks, inbuf, child_eof, n_emitted,
                   stdin_open, io, transport_lock, responded_lock,
                   responded_tool_ids, session_id, rpc, run, incoming, response,
                   pending, handler_calls, calls>>

----------------------------------------------------------------------------
(* Conversation and TurnBuilder (conversation.rs).  `history` is            *)
(* Conversation::history; `turn` is the TurnBuilder::send call in progress: *)
(* its prompt, the callbacks configured (on), collect, the responses        *)
(* gathered, and how much of `yielded` it was handed (first: where its      *)
(* stream starts, seen: the last item it took).  Callback invocations and   *)
(* returns of send are appended to calls.                                   *)

\* Lines the child writes during a conversation.
MaxTurnLines == 3

\* Calls of send the host makes.
MaxTurns == 2

\* Calls of send made so far (each begins by writing its prompt).
TurnsStarted ==
    Cardinality({i \in 1..Len(io) : /\ io[i].by = "send"
                                    /\ io[i].op \in {"bytes", "write_failed"}})

\* The prompt of the k-th turn.
Prompts == <<"one", "two", "three", "four">>

\* The callbacks a TurnBuilder may carry.
CallbackNames == {"on_text", "on_thinking", "on_tool_use"}

\* The builders the host makes: none, one or all callbacks set.
CallbackChoices == {{}, {"on_text"}, CallbackNames}

ConversationLines ==
    { IncomingJson(inc) : inc \in
      { InitLine("abc"),
        AssistantLine(<<TextBlock("hi")>>),
        AssistantLine(<<ThinkingBlock("hm"), ToolUseBlock("t1")>>),
        ResultLine(1) } }
    \cup { RawLine("not json") }

ChildEmitTurn == ChildEmit(ConversationLines, MaxTurnLines)

\* Response::as_text, as_thinking, as_tool_use: the callback a response is for.
CallbackFor(resp) ==
    CASE resp.kind = "Text" -> {"on_text"}
      [] resp.kind = "Thinking" -> {"on_thinking"}
      [] resp.kind = "ToolUse" -> {"on_tool_use"}
      [] OTHER -> {}

\* The callbacks invoked for the k-th yielded item, in the order of the code.
CallbacksInvoked(on, k, stored) ==
    LET hit(cb) == IF cb \in on /\ cb \in CallbackFor(yielded[k].response)
                   THEN <<[op |-> "callback", cb |-> cb, k |-> k, stored |-> stored]>>
                   ELSE <<>>
    IN  hit("on_text") \o hit("on_thinking") \o hit("on_tool_use")

\* send() begins: conversation.client.query(&prompt).await?, up to the
\* prompt's bytes.  A failed write returns the error.  `as` tells whether
\* send was called by send_as.
TurnBegin(as) ==
    /\ ClientExists
    /\ turn.pc = "idle"
    /\ rpc \in {"idle", "done"}
    /\ run < MaxRuns
    /\ TurnsStarted < MaxTurns
    /\ transport_lock = "free"
    /\ io' = SendData("send", 0, QueryMessage(Prompts[TurnsStarted + 1]))
    /\ \E on \in CallbackChoices, collect \in BOOLEAN :
           IF SendOk
           THEN /\ turn' = [pc |-> "query_nl", prompt |-> Prompts[TurnsStarted + 1],
                            on |-> on,
                            collect |-> collect, responses |-> <<>>,
                            first |-> Len(yielded), seen |-> Len(yielded),
                            run |-> run + 1, as |-> as, h0 |-> Len(history)]
                /\ transport_lock' = "send"
                /\ UNCHANGED calls
           ELSE /\ turn' = NoTurn
                /\ calls' = Append(calls, [op |-> "send", ret |-> "Err",
                                           error |-> "Io",
                                           first |-> Len(yielded), seen |-> Len(yielded)])
                /\ UNCHANGED transport_lock
    /\ UNCHANGED <<history, transport>>
    /\ UNCHANGED <<mcp_servers, hooks, hook_callbacks, inbuf, child_eof, n_emitted,
                   stdin_open, responded_lock, responded_tool_ids,
                   session_id, rpc, run, incoming, response, pending, yielded,
                   handler_calls, host>>

\* The newline and flush of the prompt; when they succeed the receive()
\* stream is created, otherwise send returns the error.
TurnQuerySent ==
    /\ turn.pc = "query_nl"
    /\ io' = SendNewline("send", 0, QueryMessage(turn.prompt))
    /\ transport_lock' = "free"
    /\ IF SendOk
       THEN /\ turn' = [turn EXCEPT !.pc = "stream"]
            /\ UNCHANGED calls
       ELSE /\ turn' = NoTurn
            /\ calls' = Append(calls, [op |-> "send", ret |-> "Err",
                                       error |-> "Io",
                                       first |-> Len(yielded), seen |-> Len(yielded)])
    /\ UNCHANGED <<history, transport>>
    /\ UNCHANGED <<mcp_servers, hooks, hook_callbacks, inbuf, child_eof, n_emitted,
                   stdin_open, responded_lock, responded_tool_ids,
                   session_id, rpc, run, incoming, response, pending, yielded,
                   handler_calls, host>>

\* TurnBuilder::send
TurnSend == TurnBegin(FALSE)

\* stream.next().await polls the receive() stream: its first poll starts the
\* loop, and the loop runs only until it yields.
TurnPollsStart == turn.pc = "stream" /\ run < turn.run

TurnPolls == turn.pc = "stream" /\ run = turn.run /\ turn.seen = Len(yielded)

\* Mutation of TurnItem: the event is stored before the callbacks see it.
TurnItemStoreFirst ==
    /\ turn.pc = "stream"
    /\ turn.seen < Len(yielded)
    /\ LET k == turn.seen + 1 IN
       /\ yielded[k].ok
       /\ LET stored == IF turn.collect
                        THEN Append(turn.responses, yielded[k].response)
                        ELSE turn.responses
          IN  /\ calls' = calls \o CallbacksInvoked(turn.on, k, Len(stored))
              /\ turn' = [turn EXCEPT !.seen = k, !.responses = stored]
              /\ UNCHANGED history
    /\ UNCHANGED transport
    /\ UNCHANGED <<mcp_servers, hooks, hook_callbacks, inbuf, child_eof, n_emitted,
                   stdin_open, io, transport_lock, responded_lock,
                   responded_tool_ids, session_id, rpc, run, incoming, response,
                   pending, yielded, handler_calls, host>>

\* Mutation of TurnItem: on an error the events gathered so far are kept as
\* a turn.
TurnItemKeepsPartial ==
    /\ turn.pc = "stream"
    /\ turn.seen < Len(yielded)
    /\ LET k == turn.seen + 1 IN
       IF yielded[k].ok
       THEN /\ calls' = calls \o CallbacksInvoked(turn.on, k, Len(turn.responses))
            /\ turn' = [turn EXCEPT
                   !.seen = k,
                   !.responses = IF turn.collect
                                 THEN Append(turn.responses, yielded[k].response)
                                 ELSE turn.responses]
            /\ UNCHANGED history
       ELSE /\ calls' = Append(calls, [op |-> "send", ret |-> "Err",
                                       error |-> yielded[k].error,
                                       first |-> turn.first, seen |-> k])
            /\ turn' = NoTurn
            /\ history' = Append(history, [prompt |-> turn.prompt,
                                           responses |-> turn.responses])
    /\ UNCHANGED transport
    /\ UNCHANGED <<mcp_servers, hooks, hook_callbacks, inbuf, child_eof, n_emitted,
                   stdin_open, io, transport_lock, responded_lock,
                   responded_tool_ids, session_id, rpc, run, incoming, response,
                   pending, yielded, handler_calls, host>>

\* One pass of `while let Some(result) = stream.next().await`:
\* let response = result?; the callbacks; if collect { responses.push(..) }
TurnItem ==
    /\ turn.pc = "stream"
    /\ turn.seen < Len(yielded)
    /\ LET k == turn.seen + 1 IN
       IF yielded[k].ok
       THEN /\ calls' = calls \o CallbacksInvoked(turn.on, k, Len(turn.responses))
            /\ turn' = [turn EXCEPT
                   !.seen = k,
                   !.responses = IF turn.collect
                                 THEN Append(turn.responses, yielded[k].response)
                                 ELSE turn.responses]
            /\ UNCHANGED history
       ELSE /\ calls' = Append(calls, [op |-> "send", ret |-> "Err",
                                       error |-> yielded[k].error,
                                       first |-> turn.first, seen |-> k])
            /\ turn' = NoTurn
            /\ UNCHANGED history
    /\ UNCHANGED transport
    /\ UNCHANGED <<mcp_servers, hooks, hook_callbacks, inbuf, child_eof, n_emitted,
                   stdin_open, io, transport_lock, responded_lock,
                   responded_tool_ids, session_id, rpc, run, incoming, response,
                   pending, yielded, handler_calls, host>>

\* Turn { prompt, responses }
Turn(prompt, responses) == [prompt |-> prompt, responses |-> responses]

\* Responses::completion: the last Complete among the collected responses.
completion(responses) ==
    LET cs == {i \in 1..Len(responses) : responses[i].kind = "Complete"} IN
    IF cs = {} THEN None
    ELSE Some(responses[CHOOSE i \in cs : \A j \in cs : j <= i])

\* CompleteResponse::structured_output: the field of the result message,
\* when it has one.
structured_output(c) ==
    IF "structured_output" \in DOMAIN c.inner
    THEN Some(c.inner.structured_output)
    ELSE None

\* The structured outputs serde_json::from_value::<T> accepts, for the T of
\* the call.
DecodableOutputs == {JStr("good")}

\* What send_as returns from the responses send returned.
SendAsResult(responses) ==
    LET c == completion(responses) IN
    IF Len(c) = 0
    THEN [ret |-> "Err", error |-> "ProtocolError",
          message |-> "no completion response"]
    ELSE LET s == structured_output(c[1]) IN
         IF Len(s) = 0
         THEN [ret |-> "Err", error |-> "ProtocolError",
               message |-> "no structured output in response"]
         ELSE IF s[1] \in DecodableOutputs
              THEN [ret |-> "Ok", value |-> s[1]]
              ELSE [ret |-> "Err", error |-> "Json", message |-> "from_value"]

\* Mutation of TurnEnd: under send_as the output is extracted first, and
\* the turn is recorded only when the extraction succeeds.
TurnEndExtractsFirst ==
    /\ TurnPolls
    /\ rpc = "done"
    /\ history' = IF turn.as /\ SendAsResult(turn.responses).ret = "Err"
                  THEN history
                  ELSE Append(history, Turn(turn.prompt, turn.responses))
    /\ calls' = Append(calls, [op |-> "send", ret |-> "Ok",
                               first |-> turn.first, seen |-> turn.seen])
    /\ turn' = IF turn.as
               THEN [pc |-> "extract", prompt |-> turn.prompt,
                     responses |-> turn.responses, h0 |-> turn.h0]
               ELSE NoTurn
    /\ UNCHANGED transport
    /\ UNCHANGED <<mcp_servers, hooks, hook_callbacks, inbuf, child_eof, n_emitted,
                   stdin_open, io, transport_lock, responded_lock,
                   responded_tool_ids, session_id, rpc, run, incoming, response,
                   pending, yielded, handler_calls, host>>

\* The stream has ended (stream.next() returned None):
\* conversation.history.push(Turn { .. }); Ok(responses)
TurnEnd ==
    /\ TurnPolls
    /\ rpc = "done"
    /\ history' = Append(history, Turn(turn.prompt, turn.responses))
    /\ calls' = Append(calls, [op |-> "send", ret |-> "Ok",
                               first |-> turn.first, seen |-> turn.seen])
    /\ turn' = IF turn.as
               THEN [pc |-> "extract", prompt |-> turn.prompt,
                     responses |-> turn.responses, h0 |-> turn.h0]
               ELSE NoTurn
    /\ UNCHANGED transport
    /\ UNCHANGED <<mcp_servers, hooks, hook_callbacks, inbuf, child_eof, n_emitted,
                   stdin_open, io, transport_lock, responded_lock,
                   responded_tool_ids, session_id, rpc, run, incoming, response,
                   pending, yielded, handler_calls, host>>

\* TurnBuilder::send_as: self.send().await? ...
TurnSendAs == TurnBegin(TRUE)

\* ... then, send having returned Ok, the completion and its structured
\* output are looked up and the output is decoded.  `grown` is by how many
\* turns the history is longer than when send_as was called.
SendAsExtract ==
    /\ turn.pc = "extract"
    /\ calls' = Append(calls, [op |-> "send_as", prompt |-> turn.prompt,
                               result |-> SendAsResult(turn.responses),
                               grown |-> Len(history) - turn.h0])
    /\ turn' = NoTurn
    /\ UNCHANGED <<history, transport>>
    /\ UNCHANGED <<mcp_servers, hooks, hook_callbacks, inbuf, child_eof, n_emitted,
                   stdin_open, io, transport_lock, responded_lock,
                   responded_tool_ids, session_id, rpc, run, incoming, response,
                   pending, yielded, handler_calls, host>>

\* What the child writes while structured turns run.
MaxAsLines == 2

AsLines ==
    { IncomingJson(inc) : inc \in
      { AssistantLine(<<TextBlock("hi")>>),
        ResultLine(1),
        StructuredResultLine(JStr("good")),
        StructuredResultLine(JStr("bad")) } }
    \cup { JObj(IncomingJson(ResultLine(1)).v @@ [structured_output |-> JNull]),
           RawLine("not json") }

ChildEmitAs == ChildEmit(AsLines, MaxAsLines)

\* Mutation of ClearHistory: clearing also forgets the session.
ClearHistoryAndSession ==
    /\ turn.pc = "idle"
    /\ history' = <<>>
    /\ session_id' = None
    /\ UNCHANGED <<turn, transport>>
    /\ UNCHANGED <<mcp_servers, hooks, hook_callbacks, inbuf, child_eof, n_emitted,
                   stdin_open, io, transport_lock, responded_lock,
                   responded_tool_ids, rpc, run, incoming, response,
                   pending, yielded, handler_calls, host, calls>>

\* Conversation::clear_history (it borrows the conversation mutably, so no
\* send is in progress).
ClearHistory ==
    /\ turn.pc = "idle"
    /\ history' = <<>>
    /\ UNCHANGED <<turn, transport>>
    /\ UNCHANGED <<mcp_servers, hooks, hook_callbacks, inbuf, child_eof, n_emitted,
                   stdin_open, io, transport_lock, responded_lock,
                   responded_tool_ids, session_id, rpc, run, incoming, response,
                   pending, yielded, handler_calls, host, calls>>

----------------------------------------------------------------------------
(* The life of the transport: Transport::close, Drop for Transport and the  *)
(* diagnostic-drain task log_stderr (transport.rs).  JoinHandle::abort only *)
(* asks the task to stop: a task that is running goes on until it next      *)
(* yields, and may forward lines or end by itself in between.               *)

\* Diagnostic lines the child writes.
MaxStderrLines == 2

\* The child writes a line to its diagnostic stream.
ChildWriteStderr ==
    /\ transport.child = "running"
    /\ transport.stderr_open
    /\ transport.nerr < MaxStderrLines
    /\ \E kind \in {"text", "bytes"} :
           transport' = [transport EXCEPT !.stderr = Append(@, kind), !.nerr = @ + 1]
    /\ UNCHANGED <<history, turn>>
    /\ UNCHANGED <<mcp_servers, hooks, hook_callbacks, inbuf, child_eof, n_emitted,
                   stdin_open, io, transport_lock, responded_lock,
                   responded_tool_ids, session_id, rpc, run, incoming, response,
                   pending, yielded, handler_calls, host, calls>>

\* The child closes its diagnostic stream and keeps running.
ChildCloseStderr ==
    /\ transport.child = "running"
    /\ transport.stderr_open
    /\ transport' = [transport EXCEPT !.stderr_open = FALSE]
    /\ UNCHANGED <<history, turn>>
    /\ UNCHANGED <<mcp_servers, hooks, hook_callbacks, inbuf, child_eof, n_emitted,
                   stdin_open, io, transport_lock, responded_lock,
                   responded_tool_ids, session_id, rpc, run, incoming, response,
                   pending, yielded, handler_calls, host, calls>>

\* The child process ends: of its own accord, on seeing its input closed, or
\* killed; its diagnostic stream is closed with it.  A hung child never
\* takes this step.
ChildExits ==
    /\ transport.child = "running"
    /\ transport' = [transport EXCEPT !.child = "exited", !.stderr_open = FALSE,
                                      !.log = Append(@, "exit")]
    /\ UNCHANGED <<history, turn>>
    /\ UNCHANGED <<mcp_servers, hooks, hook_callbacks, inbuf, child_eof, n_emitted,
                   stdin_open, io, transport_lock, responded_lock,
                   responded_tool_ids, session_id, rpc, run, incoming, response,
                   pending, yielded, handler_calls, host, calls>>

\* log_stderr: a line is read and forwarded to the logging sink (warn!);
\* when read_line fails, on a line that is not UTF-8, the failure is logged
\* (error!) and the task ends; at end-of-stream, Ok(0), the task ends.
LogStderr ==
    /\ transport.stderr_task \in {"running", "aborting"}
    /\ \/ /\ transport.stderr # <<>>
          /\ Head(transport.stderr) = "text"
          /\ transport' = [transport EXCEPT !.stderr = Tail(@),
                                            !.log = Append(@, "warn")]
       \/ /\ transport.stderr # <<>>
          /\ Head(transport.stderr) = "bytes"
          /\ transport' = [transport EXCEPT !.stderr = Tail(@),
                                            !.stderr_task = "finished",
                                            !.log = Append(@, "read_error")]
       \/ /\ transport.stderr = <<>>
          /\ ~transport.stderr_open
          /\ transport' = [transport EXCEPT !.stderr_task = "finished"]
    /\ UNCHANGED <<history, turn>>
    /\ UNCHANGED <<mcp_servers, hooks, hook_callbacks, inbuf, child_eof, n_emitted,
                   stdin_open, io, transport_lock, responded_lock,
                   responded_tool_ids, session_id, rpc, run, incoming, response,
                   pending, yielded, handler_calls, host, calls>>

\* The task whose abort was asked stops at its next suspension point.
StderrTaskCancelled ==
    /\ transport.stderr_task = "aborting"
    /\ transport' = [transport EXCEPT !.stderr_task = "aborted"]
    /\ UNCHANGED <<history, turn>>
    /\ UNCHANGED <<mcp_servers, hooks, hook_callbacks, inbuf, child_eof, n_emitted,
                   stdin_open, io, transport_lock, responded_lock,
                   responded_tool_ids, session_id, rpc, run, incoming, response,
                   pending, yielded, handler_calls, host, calls>>

\* Mutation of TransportClose: the input stream is left open while waiting.
TransportCloseKeepsStdin ==
    /\ transport.pc = "live"
    /\ transport' = [transport EXCEPT !.pc = "close_wait",
                                      !.log = Append(@, "wait")]
    /\ UNCHANGED <<history, turn>>
    /\ UNCHANGED <<mcp_servers, hooks, hook_callbacks, inbuf, child_eof, n_emitted,
                   stdin_open, io, transport_lock, responded_lock,
                   responded_tool_ids, session_id, rpc, run, incoming, response,
                   pending, yielded, handler_calls, host, calls>>

\* Transport::close: self.stdin.take(); then self.child.wait() is awaited.
TransportClose ==
    /\ transport.pc = "live"
    /\ transport' = [transport EXCEPT !.pc = "close_wait",
                                      !.stdin = FALSE,
                                      !.log = @ \o <<"stdin_closed", "wait">>]
    /\ UNCHANGED <<history, turn>>
    /\ UNCHANGED <<mcp_servers, hooks, hook_callbacks, inbuf, child_eof, n_emitted,
                   stdin_open, io, transport_lock, responded_lock,
                   responded_tool_ids, session_id, rpc, run, incoming, response,
                   pending, yielded, handler_calls, host, calls>>

\* self.child.wait().await? completes once the child has exited.  With the
\* child's status close returns Ok(()), and start_kill on the reaped child
\* returns Ok; when the status of the child that ended cannot be collected,
\* wait fails and close returns that error (Error::Io), and start_kill on the
\* child that is gone may fail too.  Either way the transport that close
\* consumed is dropped.
TransportCloseReturn ==
    /\ transport.pc = "close_wait"
    /\ transport.child = "exited"
    /\ \/ transport' =
              [DropTransport([transport EXCEPT !.log = Append(@, "close_returned")],
                             TRUE)
                   EXCEPT !.pc = "closed"]
       \/ \E kill_ok \in BOOLEAN :
              transport' =
                  [DropTransport([transport EXCEPT !.log = Append(@, "close_failed")],
                                 kill_ok)
                       EXCEPT !.pc = "closed"]
    /\ UNCHANGED <<history, turn>>
    /\ UNCHANGED <<mcp_servers, hooks, hook_callbacks, inbuf, child_eof, n_emitted,
                   stdin_open, io, transport_lock, responded_lock,
                   responded_tool_ids, session_id, rpc, run, incoming, response,
                   pending, yielded, handler_calls, host, calls>>

\* The transport is dropped without close having been called: the child
\* has not been waited for, and start_kill signals it, or fails to.
TransportDrop ==
    /\ transport.pc = "live"
    /\ \E kill_ok \in BOOLEAN :
           transport' = [DropTransport(transport, kill_ok) EXCEPT !.pc = "dropped"]
    /\ UNCHANGED <<history, turn>>
    /\ UNCHANGED <<mcp_servers, hooks, hook_callbacks, inbuf, child_eof, n_emitted,
                   stdin_open, io, transport_lock, responded_lock,
                   responded_tool_ids, session_id, rpc, run, incoming, response,
                   pending, yielded, handler_calls, host, calls>>

----------------------------------------------------------------------------
(* Configurations and specifications                                       *)

EchoTool == [name |-> "echo", handler |-> "ok"]

BoomTool == [name |-> "boom", handler |-> "fail"]

\* Options::mcp_servers: the endpoint registries the host may configure.
Registries ==
    { <<>>,
      [n \in {"calc"} |-> McpServer("calc", <<EchoTool, BoomTool>>)],
      [n \in {"calc"} |-> McpServer("calc", <<BoomTool>>)] }

DefaultRegistry == [n \in {"calc"} |-> McpServer("calc", <<EchoTool, BoomTool>>)]

\* Options::take_hooks: the hook tables the host may configure.
HookTables ==
    { None,
      Some([pre_tool_use |-> 1, post_tool_use |-> 0, user_prompt_submit |-> 1,
            stop |-> 0]) }

\* The state Client::new leaves behind for a given configuration.
InitWith(registry, h) ==
    /\ mcp_servers = registry
    /\ hooks = h
    /\ hook_callbacks = build_hook_callbacks(h)
    /\ inbuf = <<>>
    /\ child_eof = FALSE
    /\ n_emitted = 0
    /\ stdin_open = TRUE
    /\ io = <<[op |-> "bytes", by |-> "new", n |-> 0, line |-> InitializeEnvelope(h)],
               [op |-> "write", by |-> "new", n |-> 0, line |-> InitializeEnvelope(h)]>>
    /\ transport_lock = "free"
    /\ responded_lock = "free"
    /\ responded_tool_ids = {}
    /\ session_id = None
    /\ rpc = "idle"
    /\ run = 0
    /\ incoming = NoIncoming
    /\ response = NoResponse
    /\ pending = <<>>
    /\ yielded = <<>>
    /\ handler_calls = <<>>
    /\ host = [t \in Tasks |-> Idle]
    /\ calls = <<>>
    /\ history = <<>>
    /\ turn = NoTurn
    /\ transport = SpawnedTransport

Init == InitWith(DefaultRegistry, None)

InitControl == \E registry \in Registries, h \in HookTables : InitWith(registry, h)

\* The receive loop over streaming content.
Next ==
    \/ ChildEmitData
    \/ ChildCloseStdout
    \/ StartReceive
    \/ RecvLock
    \/ RecvRead
    \/ RecvMatch
    \/ RecvRespondData
    \/ RecvRespondNewline
    \/ RecvYield
    \/ RecvYieldErr

Spec == Init /\ [][Next]_vars

\* The receive loop over control traffic, for every configuration.
NextControl ==
    \/ ChildEmitControl
    \/ ChildCloseStdout
    \/ ChildCloseStdin
    \/ StartReceive
    \/ RecvLock
    \/ RecvRead
    \/ RecvMatch
    \/ RecvRespondData
    \/ RecvRespondNewline
    \/ RecvYield
    \/ RecvYieldErr

SpecControl == InitControl /\ [][NextControl]_vars

\* Host tasks answering tool uses while the child may stop reading.
NextTool ==
    \/ \E t \in Tasks : CallRespondToTool(t)
    \/ \E t \in Tasks : RespondCheck(t)
    \/ \E t \in Tasks : RespondSendData(t)
    \/ \E t \in Tasks : RespondSendNewline(t)
    \/ \E t \in Tasks : ClearToolResponseTracking(t)
    \/ ChildCloseStdin

SpecTool == Init /\ [][NextTool]_vars

\* Host tasks answering tool uses and clearing the tracking, with no
\* receive stream open.
NextClear ==
    \/ \E t \in Tasks : CallRespondToToolUpTo(t, MaxClearCalls, BOOLEAN)
    \/ \E t \in Tasks : RespondCheck(t)
    \/ \E t \in Tasks : RespondSendData(t)
    \/ \E t \in Tasks : RespondSendNewline(t)
    \/ \E t \in Tasks : ClearToolResponseTrackingUpTo(t, MaxClearCalls)
    \/ ChildCloseStdin

SpecClear == Init /\ [][NextClear]_vars

\* Control traffic receive() does not service, with some lines it does
\* act on.
UnservicedLines(n) ==
    { IncomingJson(inc) : inc \in
    { ControlRequestLine(n, r) :
        r \in { [subtype |-> "interrupt"],
                [subtype |-> "can_use_tool", tool_name |-> "Bash", input |-> JEmpty],
                [subtype |-> "initialize"],
                [subtype |-> "set_permission_mode", mode |-> "default"],
                [subtype |-> "set_model", model |-> "m"],
                [subtype |-> "get_server_info"] } }
    \cup { ControlResponseLine("success", <<"uuid", 0>>),
           ControlResponseLine("error", <<"uuid", 0>>),
           InitLine("abc"),
           AssistantLine(<<TextBlock("hi")>>),
           ControlRequestLine(n, McpMessageRequest("calc", ToolsCall(JStr("echo")))) } }
    \cup { JObj([type |-> JStr("control_request"), request_id |-> JStr(<<"req", n>>),
                 request |-> JArr(<<JStr("interrupt")>>)]),
           SetModeMapLine(n, "plan") }

ChildEmitUnserviced == ChildEmit(UnservicedLines(n_emitted + 1), MaxLines)

\* The receive loop over control traffic it does not service.
NextIgnore ==
    \/ ChildEmitUnserviced
    \/ ChildCloseStdout
    \/ StartReceive
    \/ RecvLock
    \/ RecvRead
    \/ RecvMatch
    \/ RecvRespondData
    \/ RecvRespondNewline
    \/ RecvYield

SpecIgnore == Init /\ [][NextIgnore]_vars

\* A success control response for request `rid` carrying `data`.
ControlResponseWith(rid, data) ==
    [type |-> "control_response",
     response |-> [subtype |-> "success", request_id |-> rid, response |-> data]]

\* The request ids of the control requests the child has received, each a
\* whole line.
IssuedRequestIds ==
    { io[i].line.request_id :
        i \in {j \in 1..Len(io) : /\ io[j].op = "write"
                                   /\ io[j].by # "recv"
                                   /\ io[j].line.type = "control_request"} }

\* What the child may write while the host issues control requests: an
\* answer to a request it has received (the Initialize acknowledgement
\* lists commands, a GetServerInfo answer has a version), and streaming
\* content.
HostLines ==
    { IncomingJson(inc) : inc \in
      UNION { { ControlResponseWith(rid, JObj([version |-> JStr("2.0.1")])),
                ControlResponseWith(rid, JObj([commands |-> JArr(<<>>)])) } :
              rid \in IssuedRequestIds }
      \cup { AssistantLine(<<TextBlock("hi")>>) } }

ChildEmitHost == ChildEmit(HostLines, MaxHostLines)

\* Before Client::new: there is no child yet and nothing has been written.
InitSpawn ==
    /\ mcp_servers = DefaultRegistry
    /\ hooks = None
    /\ hook_callbacks = build_hook_callbacks(None)
    /\ inbuf = <<>>
    /\ child_eof = FALSE
    /\ n_emitted = 0
    /\ stdin_open = TRUE
    /\ io = <<>>
    /\ transport_lock = "free"
    /\ responded_lock = "free"
    /\ responded_tool_ids = {}
    /\ session_id = None
    /\ rpc = "idle"
    /\ run = 0
    /\ incoming = NoIncoming
    /\ response = NoResponse
    /\ pending = <<>>
    /\ yielded = <<>>
    /\ handler_calls = <<>>
    /\ host = [t \in Tasks |-> Idle]
    /\ calls = <<>>
    /\ history = <<>>
    /\ turn = NoTurn
    /\ transport = NoTransport

\* The task that calls the client's methods here.  Every method holds the
\* transport mutex for its whole send, so calls from several tasks are
\* serialised and one calling task produces each of their orders.
HostCallers == {"h1"}

\* Client::new followed by the host's control requests and prompts.
NextHost ==
    \/ ClientSpawnFails
    \/ ClientSpawn
    \/ ClientNewData
    \/ ClientNewNewline
    \/ ChildEmitHost
    \/ ChildCloseStdout
    \/ ChildCloseStdin
    \/ \E t \in HostCallers : Query(t)
    \/ \E t \in HostCallers : SendMessage(t)
    \/ \E t \in HostCallers : Interrupt(t)
    \/ \E t \in HostCallers : SetPermissionMode(t)
    \/ \E t \in HostCallers : SetModel(t)
    \/ \E t \in HostCallers : SendWriteData(t)
    \/ \E t \in HostCallers : SendWriteNewline(t)
    \/ \E t \in HostCallers : CallRespondToToolUpTo(t, MaxHostCalls, {FALSE})
    \/ \E t \in HostCallers : RespondCheck(t)
    \/ \E t \in HostCallers : RespondSendData(t)
    \/ \E t \in HostCallers : RespondSendNewline(t)
    \/ \E t \in HostCallers : CallGetServerInfo(t)
    \/ \E t \in HostCallers : GetServerInfoSendData(t)
    \/ \E t \in HostCallers : GetServerInfoSendNewline(t)
    \/ \E t \in HostCallers : GetServerInfoRead(t)

SpecHost == InitSpawn /\ [][NextHost]_vars

\* What the child may write around a get_server_info call: to a request it
\* has received an answer with a version or an error outcome, and streaming
\* content.
ServerInfoLines ==
    { IncomingJson(inc) : inc \in
      UNION { { ControlResponseWith(rid, JObj([version |-> JStr("2.0.1")])),
                ControlResponseLine("error", rid) } : rid \in IssuedRequestIds }
      \cup { AssistantLine(<<TextBlock("hi")>>) } }

ChildEmitServerInfo == ChildEmit(ServerInfoLines, MaxHostLines)

\* Client::new followed by get_server_info calls, prompts and receive
\* streams on the same transport.
NextServerInfo ==
    \/ ClientSpawnFails
    \/ ClientSpawn
    \/ ClientNewData
    \/ ClientNewNewline
    \/ ChildEmitServerInfo
    \/ ChildCloseStdout
    \/ ChildCloseStdin
    \/ \E t \in HostCallers : Query(t)
    \/ \E t \in HostCallers : SendWriteData(t)
    \/ \E t \in HostCallers : SendWriteNewline(t)
    \/ \E t \in HostCallers : CallGetServerInfo(t)
    \/ \E t \in HostCallers : GetServerInfoSendData(t)
    \/ \E t \in HostCallers : GetServerInfoSendNewline(t)
    \/ \E t \in HostCallers : GetServerInfoRead(t)
    \/ StartReceive
    \/ RecvLock
    \/ RecvRead
    \/ RecvMatch
    \/ RecvYield

SpecServerInfo == InitSpawn /\ [][NextServerInfo]_vars

\* Lines the child writes around a get_server_info call.
MaxDrainLines == 2

\* What the child may write while get_server_info drains: requests for a
\* registered tool and a registered hook, an init message, and the answer
\* to a request it has received.
DrainLines(n) ==
    { IncomingJson(inc) : inc \in
      { ControlRequestLine(n, McpMessageRequest("calc", ToolsCall(JStr("echo")))),
        ControlRequestLine(n, HookCallbackRequest(HookId(0))),
        InitLine("abc") }
      \cup { ControlResponseWith(rid, JObj([version |-> JStr("2.0.1")])) :
               rid \in IssuedRequestIds } }

ChildEmitDrain == ChildEmit(DrainLines(n_emitted + 1), MaxDrainLines)

\* A client with one pre-tool-use hook registered.
InitDrain ==
    InitWith(DefaultRegistry,
             Some([pre_tool_use |-> 1, post_tool_use |-> 0, user_prompt_submit |-> 0,
                   stop |-> 0]))

\* get_server_info calls and receive streams taking turns on the child's
\* output.
NextDrain ==
    \/ ChildEmitDrain
    \/ ChildCloseStdout
    \/ \E t \in HostCallers : CallGetServerInfo(t)
    \/ \E t \in HostCallers : GetServerInfoSendData(t)
    \/ \E t \in HostCallers : GetServerInfoSendNewline(t)
    \/ \E t \in HostCallers : GetServerInfoRead(t)
    \/ StartReceive
    \/ RecvLock
    \/ RecvRead
    \/ RecvMatch
    \/ RecvRespondData
    \/ RecvRespondNewline
    \/ RecvYield

SpecDrain == InitDrain /\ [][NextDrain]_vars

\* Lines the child writes while two tasks call get_server_info.
MaxSerialLines == 2

\* Answers to the requests the child has received, and streaming content.
SerialLines ==
    { IncomingJson(inc) : inc \in
      { ControlResponseWith(rid, JObj([version |-> JStr("2.0.1")])) :
          rid \in IssuedRequestIds }
      \cup { AssistantLine(<<TextBlock("hi")>>) } }

ChildEmitSerial == ChildEmit(SerialLines, MaxSerialLines)

\* Two host tasks calling get_server_info and query while a receive stream
\* is polled.
NextSerial ==
    \/ ChildEmitSerial
    \/ ChildCloseStdout
    \/ \E t \in Tasks : Query(t)
    \/ \E t \in Tasks : SendWriteData(t)
    \/ \E t \in Tasks : SendWriteNewline(t)
    \/ \E t \in Tasks : CallGetServerInfo(t)
    \/ \E t \in Tasks : GetServerInfoSendData(t)
    \/ \E t \in Tasks : GetServerInfoSendNewline(t)
    \/ \E t \in Tasks : GetServerInfoRead(t)
    \/ StartReceive
    \/ RecvLock
    \/ RecvRead
    \/ RecvMatch
    \/ RecvYield

SpecSerial == Init /\ [][NextSerial]_vars

\* What the child writes while the host tasks contend for the locks: a
\* tool request for receive() to answer, or the answer to a request it has
\* received.
LocksLines(n) ==
    { IncomingJson(inc) : inc \in
      { ControlRequestLine(n, McpMessageRequest("calc", ToolsCall(JStr("echo")))) }
      \cup { ControlResponseWith(rid, JObj([version |-> JStr("2.0.1")])) :
               rid \in IssuedRequestIds } }

ChildEmitLocks == ChildEmit(LocksLines(n_emitted + 1), MaxPipeLines)

\* Two host tasks calling the methods of the client that take a lock, while
\* a receive stream is polled. query stands for send_message and set_model
\* for set_permission_mode, which lock and send the same way.
NextLocks ==
    \/ ChildEmitLocks
    \/ \E t \in Tasks : CallRespondToToolUpTo(t, MaxHostCalls, {FALSE})
    \/ \E t \in Tasks : RespondCheck(t)
    \/ \E t \in Tasks : RespondSendData(t)
    \/ \E t \in Tasks : RespondSendNewline(t)
    \/ \E t \in Tasks : ClearToolResponseTrackingUpTo(t, MaxHostCalls)
    \/ \E t \in Tasks : CallSendOf(t, {"query", "interrupt", "set_model"})
    \/ \E t \in Tasks : SendWriteData(t)
    \/ \E t \in Tasks : SendWriteNewline(t)
    \/ \E t \in Tasks : CallGetServerInfo(t)
    \/ \E t \in Tasks : GetServerInfoSendData(t)
    \/ \E t \in Tasks : GetServerInfoSendNewline(t)
    \/ \E t \in Tasks : GetServerInfoRead(t)
    \/ StartReceive
    \/ RecvLock
    \/ RecvRead
    \/ RecvMatch
    \/ RecvRespondData
    \/ RecvRespondNewline

SpecLocks == Init /\ [][NextLocks]_vars

\* Assistant messages in error with no, one and three content blocks, user
\* echoes, and ordinary content.
EchoLines ==
    { IncomingJson(inc) : inc \in {
      AssistantErrorLine(<<>>, "rate_limit"),
      AssistantErrorLine(<<TextBlock("ab")>>, "rate_limit"),
      AssistantErrorLine(<<ThinkingBlock("hm"), ToolUseBlock("tu1"), TextBlock("cd")>>,
                         "server_error"),
      UserLine(<<>>),
      UserLine(<<ToolResultBlock("tu1")>>),
      AssistantLine(<<TextBlock("hi")>>),
      ResultLine(1) } }
    \cup { UserTextLine("hello"), AssistantErrorMapLine("rate_limit") }

ChildEmitEcho == ChildEmit(EchoLines, MaxLines)

\* The receive loop over messages in error and user echoes.
NextEcho ==
    \/ ChildEmitEcho
    \/ ChildCloseStdout
    \/ StartReceive
    \/ RecvLock
    \/ RecvRead
    \/ RecvMatch
    \/ RecvYield

SpecEcho == Init /\ [][NextEcho]_vars

\* Every hook table with at most MaxHooks hooks of each kind, and no table.
AllHookTables ==
    {None} \cup
    { Some([pre_tool_use |-> p, post_tool_use |-> q, user_prompt_submit |-> r,
            stop |-> s]) : p, q, r, s \in 0..MaxHooks }

\* Hook callback requests the child may write: every id a table of this
\* size can hold, one past the largest, and an id of another form.
HookLines(n) ==
    { IncomingJson(inc) : inc \in
      { ControlRequestLine(n, HookCallbackRequest(HookId(k))) : k \in 0..(4 * MaxHooks) }
      \cup { ControlRequestLine(n, HookCallbackRequest(<<"cb_", 0>>)) } }

ChildEmitHooks == ChildEmit(HookLines(n_emitted + 1), MaxHookLines)

InitHooks == \E h \in AllHookTables : InitWith(DefaultRegistry, h)

\* The receive loop servicing hook callbacks, for every hook table.
NextHooks ==
    \/ ChildEmitHooks
    \/ ChildCloseStdout
    \/ StartReceive
    \/ RecvLock
    \/ RecvRead
    \/ RecvMatch
    \/ RecvRespondData
    \/ RecvRespondNewline

SpecHooks == InitHooks /\ [][NextHooks]_vars

----------------------------------------------------------------------------
(* Helpers for stating properties of the logs                              *)

\* Indexes of the pipe log entries where the bytes of a tool-result message
\* for tool_use_id reached the child's input.
ToolResultData(tool_use_id) ==
    {i \in 1..Len(io) :
        /\ io[i].op = "bytes"
        /\ io[i].line.type = "user"
        /\ \E b \in 1..Len(io[i].line.message.content) :
               /\ io[i].line.message.content[b].type = "tool_result"
               /\ io[i].line.message.content[b].tool_use_id = tool_use_id}

\* Indexes of the pipe log entries that are successful writes of a
\* tool-result message for tool_use_id, newline included.
ToolResultWrites(tool_use_id) ==
    {i \in 1..Len(io) :
        /\ io[i].op = "write"
        /\ io[i].line.type = "user"
        /\ \E b \in 1..Len(io[i].line.message.content) :
               /\ io[i].line.message.content[b].type = "tool_result"
               /\ io[i].line.message.content[b].tool_use_id = tool_use_id}

\* No clear_tool_response_tracking completed between calls i and j.
NoClearBetween(i, j) ==
    \A k \in (i + 1)..(j - 1) : calls[k].op # "clear_tool_response_tracking"

NoClearAtAll == \A k \in 1..Len(calls) : calls[k].op # "clear_tool_response_tracking"

----------------------------------------------------------------------------
(* C1 *)

\* C1: with no clear_tool_response_tracking in between, at most one
\* tool-result message per tool_use_id is written to the transport, whole
\* or in part: a respond_to_tool call that follows another call with the
\* same id writes no line, and returns Ok once a call with that id has
\* returned Ok.  Every call returns Ok as long as the child keeps its stdin
\* open; a call returns Err only when its own send fails.
C1_AtMostOneToolResultPerId ==
    /\ NoClearAtAll =>
           \A id \in ToolUseIds :
               /\ Cardinality(ToolResultWrites(id)) <= 1
               /\ Cardinality(ToolResultData(id)) <= 1
    /\ \A i, j \in 1..Len(calls) :
           ( /\ i < j
             /\ calls[i].op = "respond_to_tool"
             /\ calls[j].op = "respond_to_tool"
             /\ calls[i].id = calls[j].id
             /\ NoClearBetween(i, j) )
           => /\ ~calls[j].wrote
              /\ calls[i].ret = "Ok" => calls[j].ret = "Ok"
    /\ stdin_open =>
           \A k \in 1..Len(calls) :
               calls[k].op = "respond_to_tool" => calls[k].ret = "Ok"

\* C1 witness: a first call wrote the tool result and a later call with the
\* same id returned Ok without writing; the log holds one write for the id.
C1_Witness ==
    \E i, j \in 1..Len(calls) :
        /\ i < j
        /\ calls[i].op = "respond_to_tool"
        /\ calls[j].op = "respond_to_tool"
        /\ calls[i].id = calls[j].id
        /\ NoClearBetween(i, j)
        /\ calls[i].wrote
        /\ calls[j].ret = "Ok"
        /\ ~calls[j].wrote
        /\ Cardinality(ToolResultWrites(calls[i].id)) = 1

----------------------------------------------------------------------------
(* Helpers for the receive stream                                          *)

\* The items the stream has yielded for inbound line n, in order.
ItemsOf(n) == SelectSeq(yielded, LAMBDA it : it.n = n)

\* Line n is no longer being processed by the receive loop.
LineDone(n) ==
    /\ ~(rpc = "match" /\ incoming.n = n)
    /\ ~(rpc \in {"respond", "respond_nl"} /\ response[1].n = n)
    /\ ~(pending # <<>> /\ Head(pending).n = n)

\* Indexes of the log entries where receive() read a line that decodes.
DecodedReads ==
    {i \in 1..Len(io) : io[i].op = "read" /\ io[i].line # Undecoded}

\* Indexes of the log entries where receive() read an assistant message.
AssistantReads == {i \in DecodedReads : io[i].line.type = "assistant"}

\* The event kind the documentation gives for a content block type.
KindOfBlockType(type) ==
    CASE type = "text" -> "Text"
      [] type = "tool_use" -> "ToolUse"
      [] type = "tool_result" -> "ToolResult"
      [] type = "thinking" -> "Thinking"

\* Line n produced exactly one event per block, in block order, each of the
\* kind of its block and carrying that block.
OneEventPerBlock(n, blocks) ==
    LET items == ItemsOf(n) IN
    /\ Len(items) = Len(blocks)
    /\ \A k \in 1..Len(items) :
           /\ items[k].ok
           /\ items[k].response.kind = KindOfBlockType(blocks[k].type)
           /\ items[k].response.inner = blocks[k]

----------------------------------------------------------------------------
(* C2 *)

\* C2 as stated: every assistant message with N content blocks read by
\* receive() yields exactly N events, in block order, each of the kind of its
\* block.
C2_EveryAssistantMessageOneEventPerBlock ==
    \A i \in AssistantReads :
        LineDone(io[i].n) => OneEventPerBlock(io[i].n, io[i].line.message.content)

\* C2: every assistant message that carries no `error` field and has N
\* content blocks yields, once receive() has processed it, exactly N events,
\* in block order, each of the kind of its block.
C2_OneEventPerBlockWithoutError ==
    \A i \in AssistantReads :
        (LineDone(io[i].n) /\ "error" \notin DOMAIN io[i].line.message)
        => OneEventPerBlock(io[i].n, io[i].line.message.content)

\* C2 witness: a three-block message (thinking, tool_use, tool_result) has
\* been processed and its three events yielded.
C2_Witness ==
    \E i \in AssistantReads :
        /\ LineDone(io[i].n)
        /\ "error" \notin DOMAIN io[i].line.message
        /\ Len(io[i].line.message.content) = 3
        /\ Len(ItemsOf(io[i].n)) = 3
        /\ ItemsOf(io[i].n)[1].response.kind = "Thinking"
        /\ ItemsOf(io[i].n)[3].response.kind = "ToolResult"

----------------------------------------------------------------------------
(* C3 *)

\* A yielded item is Ok(Response::Complete(..)).
CompleteItem(item) == item.ok /\ item.response.kind = "Complete"

\* C3: a Complete event is the last item of its receive() invocation: the
\* stream ends at once, and the invocation reads no line (and no
\* end-of-stream) after the result line, even when more lines are available.
C3_CompleteIsLast ==
    \A k \in 1..Len(yielded) :
        CompleteItem(yielded[k]) =>
            /\ \A m \in (k + 1)..Len(yielded) : yielded[m].run # yielded[k].run
            /\ \A i \in 1..Len(io) :
                   (io[i].op \in {"read", "eof"} /\ io[i].run = yielded[k].run)
                   => (io[i].op = "read" /\ io[i].n <= yielded[k].n)
            /\ yielded[k].run = run => (rpc = "done" /\ pending = <<>>)

\* C3 witness: Complete was yielded, the stream has ended, and a further
\* line is waiting unread in the pipe.
C3_Witness ==
    /\ yielded # <<>>
    /\ CompleteItem(Last(yielded))
    /\ Last(yielded).run = run
    /\ rpc = "done"
    /\ inbuf # <<>>

----------------------------------------------------------------------------
(* C4 *)

\* Indexes of the log entries where receive() read a control request that
\* it services inline (McpMessage or HookCallback).
ServicedReads ==
    {i \in DecodedReads :
        /\ io[i].line.type = "control_request"
        /\ io[i].line.request.subtype \in {"mcp_message", "hook_callback"}}

\* The log entries that end a send: the line was written whole, or the
\* send failed before or after the message bytes.
SendEnds == {"write", "write_failed", "newline_failed"}

\* Log entry k is where receive()'s send of the control response to the
\* request read at log entry i returned.
IsResponseTo(k, i) ==
    /\ io[k].op \in SendEnds
    /\ io[k].by = "recv"
    /\ io[k].n = io[i].n
    /\ io[k].line.type = "control_response"
    /\ io[k].line.response.request_id = io[i].line.request_id

\* C4: for every McpMessage or HookCallback request read by receive(), the
\* control response for that request is sent on the transport before
\* receive() reads the next line (or end-of-stream); the send writes the
\* response unless the child has closed its stdin.
C4_ResponseBeforeNextRead ==
    \A i \in ServicedReads :
        \A j \in (i + 1)..Len(io) :
            io[j].op \in {"read", "eof"} =>
                \E k \in (i + 1)..(j - 1) :
                    /\ IsResponseTo(k, i)
                    /\ io[k].op # "write" => ~stdin_open

\* C4 witness: a serviced request was read, its response written, and the
\* next line read after that.
C4_Witness ==
    \E i \in ServicedReads :
        \E k \in (i + 1)..Len(io) :
            /\ IsResponseTo(k, i)
            /\ io[k].op = "write"
            /\ \E j \in (k + 1)..Len(io) : io[j].op = "read"

----------------------------------------------------------------------------
(* C5 *)

\* Indexes of the log entries where receive() read a system/init message
\* that carries a session id and has gone through the match.
SeenInitReads ==
    {i \in DecodedReads :
        /\ io[i].line.type = "system"
        /\ io[i].line.subtype = "init"
        /\ "session_id" \in DOMAIN io[i].line
        /\ ~(rpc = "match" /\ incoming.n = io[i].n)}

\* The lines receive() invocation r has read, in order.
LinesOfRun(r) ==
    LET reads == SelectSeq(io, LAMBDA e : e.op = "read" /\ e.run = r)
    IN  [i \in 1..Len(reads) |-> reads[i].line]

\* The items receive() invocation r has yielded, in order.
ItemsOfRun(r) == SelectSeq(yielded, LAMBDA it : it.run = r)

\* Invocation r of receive() has ended.
RunEnded(r) == r < run \/ (r = run /\ rpc = "done")

\* The documented scenario: init(s), assistant with one text block t,
\* result(num_turns n) yields exactly [Init(s), Text(t), Complete(n)].
InitTextCompleteScenario(r, s, t, n) ==
    (RunEnded(r) /\ LinesOfRun(r) = <<InitLine(s), AssistantLine(<<TextBlock(t)>>),
                                       ResultLine(n)>>)
    => LET items == ItemsOfRun(r) IN
       /\ Len(items) = 3
       /\ \A k \in 1..3 : items[k].ok
       /\ items[1].response.kind = "Init"
       /\ items[1].response.inner.session_id = s
       /\ items[2].response.kind = "Text"
       /\ items[2].response.inner.text = t
       /\ items[3].response.kind = "Complete"
       /\ items[3].response.inner.num_turns = n
       /\ r = run => session_id = Some(s)

\* C5: a system/init message carrying session id s yields one Init event
\* carrying s, and session_id() returns the id of the latest such message
\* from the match that precedes the yield onwards; the lines init(s),
\* assistant[text t], result(n) yield exactly [Init(s), Text(t), Complete(n)].
C5_InitRecordsSessionId ==
    /\ \A i \in SeenInitReads :
           /\ LineDone(io[i].n) =>
                  /\ Len(ItemsOf(io[i].n)) = 1
                  /\ ItemsOf(io[i].n)[1].ok
                  /\ ItemsOf(io[i].n)[1].response.kind = "Init"
                  /\ ItemsOf(io[i].n)[1].response.inner.session_id = io[i].line.session_id
           /\ (\A j \in SeenInitReads : j <= i) =>
                  session_id = Some(io[i].line.session_id)
    /\ SeenInitReads = {} => session_id = None
    /\ \A r \in 1..run : \A s \in {"abc", "xyz"} :
           InitTextCompleteScenario(r, s, "hi", 1)

\* C5 witness: the scenario has run with s = "abc", t = "hi", n = 1.
C5_Witness ==
    /\ run = 1
    /\ rpc = "done"
    /\ LinesOfRun(1) = <<InitLine("abc"), AssistantLine(<<TextBlock("hi")>>),
                         ResultLine(1)>>
    /\ Len(yielded) = 3
    /\ yielded[1].response.kind = "Init"
    /\ session_id = Some("abc")

----------------------------------------------------------------------------
(* C6 *)

\* Invocation r of receive() met end-of-stream.
RunMetEof(r) == \E i \in 1..Len(io) : io[i].op = "eof" /\ io[i].run = r

\* The events a decoded line stands for (none for control traffic).
EventsOfLine(line) ==
    IF line.type \in {"user", "assistant", "system", "result"}
    THEN from_message(line) ELSE <<>>

\* C6: when the child closes its output before any result message, the
\* invocation yields the events of every line it read, in order, and ends
\* cleanly: no Complete event and no Err item.
C6_EofEndsCleanly ==
    \A r \in 1..run :
        (RunMetEof(r) /\ RunEnded(r)) =>
            LET items == ItemsOfRun(r)
                lines == LinesOfRun(r)
            IN  /\ \A k \in 1..Len(items) :
                       items[k].ok /\ items[k].response.kind # "Complete"
                /\ \A k \in 1..Len(lines) : lines[k] # Undecoded
                /\ [k \in 1..Len(items) |-> items[k].response]
                     = Flatten([k \in 1..Len(lines) |-> EventsOfLine(lines[k])])

\* C6 witness: one assistant message with text blocks "ab" and "cd", then
\* end-of-stream: the stream yielded the two Text events and ended.
C6_Witness ==
    /\ run = 1
    /\ rpc = "done"
    /\ RunMetEof(1)
    /\ LinesOfRun(1) = <<AssistantLine(<<TextBlock("ab"), TextBlock("cd")>>)>>
    /\ Len(yielded) = 2
    /\ yielded[1].response.inner.text = "ab"
    /\ yielded[2].response.inner.text = "cd"

----------------------------------------------------------------------------
(* C7 *)

\* Indexes of the log entries where receive() read a line that yields no
\* Incoming value.
FailedReads ==
    {i \in 1..Len(io) : io[i].op = "read" /\ io[i].line = Undecoded}

\* Those where read_line gave a line of text and the text does not decode.
UndecodedReads == {i \in FailedReads : io[i].wire.t # "bytes"}

\* C7: a line that does not decode makes the stream yield exactly one
\* Err(ProtocolError) and end: the invocation reads nothing after it and
\* nothing is written to the transport for that line.  (When read_line
\* itself fails, on bytes that are not UTF-8, no line is obtained; the one
\* error is then Err(Io), and the stream ends in the same way.)
C7_DecodeFailureEndsStream ==
    \A i \in FailedReads :
        /\ \A k \in 1..Len(io) :
               io[k].op \in SendEntries => io[k].n # io[i].n
        /\ \A j \in (i + 1)..Len(io) :
               io[j].op \in {"read", "eof"} => io[j].run # io[i].run
        /\ LineDone(io[i].n) =>
               /\ Len(ItemsOf(io[i].n)) = 1
               /\ ~ItemsOf(io[i].n)[1].ok
               /\ ItemsOf(io[i].n)[1].error =
                      (IF i \in UndecodedReads THEN "ProtocolError" ELSE "Io")
               /\ ItemsOf(io[i].n)[1] = Last(ItemsOfRun(io[i].run))
               /\ io[i].run = run => rpc = "done"

\* C7 witness: an undecodable line was read while another line was waiting;
\* the stream yielded the error and ended without reading it.
C7_Witness ==
    \E i \in UndecodedReads :
        /\ LineDone(io[i].n)
        /\ io[i].run = run
        /\ rpc = "done"
        /\ yielded # <<>>
        /\ ~Last(yielded).ok
        /\ Last(yielded).n = io[i].n
        /\ inbuf # <<>>

----------------------------------------------------------------------------
(* Helpers for the in-process endpoints                                    *)

\* Indexes of the log entries where receive() read an McpMessage request.
McpReads ==
    {i \in DecodedReads :
        /\ io[i].line.type = "control_request"
        /\ io[i].line.request.subtype = "mcp_message"}

\* The McpMessage read at log entry i is a tools/call for a registered
\* endpoint.
IsToolsCallRead(i) ==
    LET req == io[i].line.request IN
    /\ req.server_name \in DOMAIN mcp_servers
    /\ req.message.t = "obj"
    /\ "method" \in DOMAIN req.message.v
    /\ req.message.v.method = JStr("tools/call")

\* The names of the tools registered with an endpoint.
RegisteredToolNames(server_name) ==
    {mcp_servers[server_name].tools[t].name :
        t \in 1..Len(mcp_servers[server_name].tools)}

\* The tools/call read at log entry i carries a string `name`.
HasStringName(i) ==
    LET msg == io[i].line.request.message.v IN
    /\ "params" \in DOMAIN msg
    /\ msg.params.t = "obj"
    /\ "name" \in DOMAIN msg.params.v
    /\ msg.params.v.name.t = "str"

\* The name a tools/call read at log entry i carries.
CalledName(i) == io[i].line.request.message.v.params.v.name.v

\* The tools/call read at log entry i names a registered tool.
NamesRegisteredTool(i) ==
    /\ HasStringName(i)
    /\ CalledName(i) \in RegisteredToolNames(io[i].line.request.server_name)

\* The handler outcome of the registered tool a tools/call names.
NamedToolHandler(i) ==
    LET req == io[i].line.request
        tools == mcp_servers[req.server_name].tools
        t == CHOOSE t \in 1..Len(tools) :
                 /\ tools[t].name = CalledName(i)
                 /\ \A u \in 1..Len(tools) : tools[u].name = tools[t].name => u <= t
    IN  tools[t].handler

\* The handler invocations made while servicing inbound line n.
HandlerCallsOf(n) == SelectSeq(handler_calls, LAMBDA c : c.n = n)

\* After receive()'s send of a response returned at log entry k, the loop
\* is back at its top, about to read the next line.
LoopContinuesAfter(k) ==
    (k = Len(io) /\ io[k].op \in SendEnds) => rpc \in {"lock", "read"}

----------------------------------------------------------------------------
(* C8 *)

\* C8: a tools/call whose handler fails produces a JSON-RPC success result
\* (no `error` member) with isError == true carrying the failure text; the
\* control response is a success envelope, the handler ran once, no item is
\* yielded for the request and the receive loop continues.
C8_FailingHandlerIsMarkedResult ==
    \A i \in McpReads :
        (IsToolsCallRead(i) /\ NamesRegisteredTool(i) /\ NamedToolHandler(i) = "fail")
        => /\ ItemsOf(io[i].n) = <<>>
           /\ LineDone(io[i].n) => Len(HandlerCallsOf(io[i].n)) = 1
           /\ \A k \in (i + 1)..Len(io) :
                  IsResponseTo(k, i) =>
                      LET payload == io[k].line.response.response.mcp_response IN
                      /\ io[k].line.response.subtype = "success"
                      /\ "error" \notin DOMAIN payload
                      /\ "result" \in DOMAIN payload
                      /\ payload.id = io[i].line.request.message.v.id
                      /\ payload.result.isError = TRUE
                      /\ payload.result.content =
                             <<[type |-> "text",
                                text |-> <<"execution failed: ",
                                           CalledName(i)>>]>>
                      /\ LoopContinuesAfter(k)

\* C8 witness: tools/call of the failing tool "boom" was serviced, its
\* marked-error result written, and the loop read the next line.
C8_Witness ==
    \E i \in McpReads :
        /\ IsToolsCallRead(i)
        /\ NamesRegisteredTool(i)
        /\ NamedToolHandler(i) = "fail"
        /\ \E k \in (i + 1)..Len(io) :
               /\ IsResponseTo(k, i)
               /\ io[k].op = "write"
               /\ io[k].line.response.response.mcp_response.result.isError
               /\ \E j \in (k + 1)..Len(io) : io[j].op = "read" /\ io[j].run = io[i].run

----------------------------------------------------------------------------
(* C9 *)

\* C9: a tools/call that has no string `name` parameter, or names a tool
\* that is not registered, produces a JSON-RPC error result (-32602 and
\* -32601) and invokes no tool handler, whatever tools are registered.
C9_UnknownToolIsErrorResult ==
    \A i \in McpReads :
        (IsToolsCallRead(i) /\ ~NamesRegisteredTool(i))
        => /\ HandlerCallsOf(io[i].n) = <<>>
           /\ \A k \in (i + 1)..Len(io) :
                  IsResponseTo(k, i) =>
                      LET payload == io[k].line.response.response.mcp_response IN
                      /\ "error" \in DOMAIN payload
                      /\ "result" \notin DOMAIN payload
                      /\ payload.error.code =
                             IF HasStringName(i) THEN -32601 ELSE -32602

\* C9 witness: with tools registered, a tools/call naming an unregistered
\* tool and one without a string name have both been answered.
C9_Witness ==
    /\ \E i \in McpReads :
           /\ IsToolsCallRead(i)
           /\ HasStringName(i)
           /\ ~NamesRegisteredTool(i)
           /\ RegisteredToolNames(io[i].line.request.server_name) # {}
           /\ \E k \in (i + 1)..Len(io) : IsResponseTo(k, i) /\ io[k].op = "write"
    /\ \E i \in McpReads :
           /\ IsToolsCallRead(i)
           /\ ~HasStringName(i)
           /\ \E k \in (i + 1)..Len(io) : IsResponseTo(k, i) /\ io[k].op = "write"

----------------------------------------------------------------------------
(* C10 *)

\* C10: an McpMessage naming an endpoint that is not registered is answered
\* with a success envelope for that request id whose nested payload is a
\* not-found JSON-RPC error; no handler runs, no item is yielded for the
\* request and the receive loop continues.
C10_UnknownEndpointIsNotFound ==
    \A i \in McpReads :
        io[i].line.request.server_name \notin DOMAIN mcp_servers
        => /\ HandlerCallsOf(io[i].n) = <<>>
           /\ ItemsOf(io[i].n) = <<>>
           /\ \A k \in (i + 1)..Len(io) :
                  (io[k].op \in SendEntries /\ io[k].n = io[i].n) =>
                      LET resp == io[k].line.response IN
                      /\ io[k].line.type = "control_response"
                      /\ resp.subtype = "success"
                      /\ resp.request_id = io[i].line.request_id
                      /\ "error" \in DOMAIN resp.response.mcp_response
                      /\ "result" \notin DOMAIN resp.response.mcp_response
                      /\ resp.response.mcp_response.error.code = -32601
                      /\ resp.response.mcp_response.error.message =
                             <<"MCP server '", io[i].line.request.server_name,
                               "' not found">>
                      /\ LoopContinuesAfter(k)

\* C10 witness: a request for the unregistered endpoint "ghost" was
\* answered while another endpoint is registered, and the loop read on.
C10_Witness ==
    \E i \in McpReads :
        /\ io[i].line.request.server_name \notin DOMAIN mcp_servers
        /\ DOMAIN mcp_servers # {}
        /\ \E k \in (i + 1)..Len(io) :
               /\ IsResponseTo(k, i)
               /\ io[k].op = "write"
               /\ \E j \in (k + 1)..Len(io) : io[j].op = "read" /\ io[j].run = io[i].run

----------------------------------------------------------------------------
(* C11 *)

\* Number of hooks of every kind in the client's table.
HookTotal ==
    IF hooks = None THEN 0
    ELSE hooks[1].pre_tool_use + hooks[1].post_tool_use
         + hooks[1].user_prompt_submit + hooks[1].stop

\* The (kind, index) the documented arithmetic gives for id hook_n.
ExpectedHookEntry(n) ==
    LET p == hooks[1].pre_tool_use
        q == hooks[1].post_tool_use
        r == hooks[1].user_prompt_submit
    IN  CASE n < p -> [kind |-> "PreToolUse", idx |-> n]
          [] p <= n /\ n < p + q -> [kind |-> "PostToolUse", idx |-> n - p]
          [] p + q <= n /\ n < p + q + r ->
                [kind |-> "UserPromptSubmit", idx |-> n - p - q]
          [] OTHER -> [kind |-> "Stop", idx |-> n - p - q - r]

\* Indexes of the log entries where receive() read a HookCallback request.
HookReads ==
    {i \in DecodedReads :
        /\ io[i].line.type = "control_request"
        /\ io[i].line.request.subtype = "hook_callback"}

\* The HookCallback read at log entry i names a registered hook.
NamesRegisteredHook(i) ==
    LET id == io[i].line.request.callback_id IN
    id[1] = "hook_" /\ id[2] < HookTotal

\* C11: with p, q, r, s hooks of the four kinds, the registered ids are
\* exactly hook_0 .. hook_(p+q+r+s-1), id hook_n resolves to the entry the
\* range arithmetic gives, and a callback for hook_n invokes that hook.
C11_HookIdArithmetic ==
    /\ DOMAIN hook_callbacks = {HookId(n) : n \in 0..(HookTotal - 1)}
    /\ Cardinality(DOMAIN hook_callbacks) = HookTotal
    /\ \A n \in 0..(HookTotal - 1) : hook_callbacks[HookId(n)] = ExpectedHookEntry(n)
    /\ \A i \in HookReads :
           (NamesRegisteredHook(i) /\ LineDone(io[i].n)) =>
               LET e == ExpectedHookEntry(io[i].line.request.callback_id[2]) IN
               HandlerCallsOf(io[i].n) = <<[n |-> io[i].n,
                                            call |-> [hook |-> e.kind, idx |-> e.idx]]>>

\* C11 witness: with p = 2, q = 1, r = 2, s = 1 a callback for hook_4 was
\* dispatched to user-prompt-submit hook 1.
C11_Witness ==
    /\ hooks = Some([pre_tool_use |-> 2, post_tool_use |-> 1,
                     user_prompt_submit |-> 2, stop |-> 1])
    /\ \E i \in HookReads :
           /\ io[i].line.request.callback_id = HookId(4)
           /\ LineDone(io[i].n)
           /\ HandlerCallsOf(io[i].n) =
                  <<[n |-> io[i].n, call |-> [hook |-> "UserPromptSubmit", idx |-> 1]]>>

----------------------------------------------------------------------------
(* C12 *)

\* C12: a HookCallback whose id has no registration is answered with a
\* success control response carrying an empty object; no host callback is
\* invoked, no item is yielded for it and the receive loop continues.  The
\* same no-op answer is what handle_hook_callback computes for an entry whose
\* index is past the end of its hook list.
C12_UnknownHookIsNoOp ==
    /\ \A i \in HookReads :
           ~NamesRegisteredHook(i) =>
               /\ HandlerCallsOf(io[i].n) = <<>>
               /\ ItemsOf(io[i].n) = <<>>
               /\ \A k \in (i + 1)..Len(io) :
                      (io[k].op \in SendEntries /\ io[k].n = io[i].n) =>
                          /\ io[k].line.type = "control_response"
                          /\ io[k].line.response.subtype = "success"
                          /\ io[k].line.response.request_id = io[i].line.request_id
                          /\ DOMAIN io[k].line.response.response = {}
                          /\ LoopContinuesAfter(k)
    /\ (hooks # None /\ rpc = "idle" /\ inbuf = <<>>) =>
           \A hb \in AllHookTables \ {None} :
               LET cbs == build_hook_callbacks(hb) IN
               \A id \in DOMAIN cbs :
                   cbs[id].idx >= HookListLen(hooks[1], cbs[id].kind) =>
                       LET out == HandleHookCallbackWith(hooks, cbs, <<"req", 1>>,
                                                         HookCallbackRequest(id))
                       IN  /\ out.called = <<>>
                           /\ out.envelope.response.subtype = "success"
                           /\ out.envelope.response.request_id = <<"req", 1>>
                           /\ DOMAIN out.envelope.response.response = {}

\* C12 witness: with hooks registered, a callback for an id one past the
\* last registered one was answered and the loop went on to read again.
C12_Witness ==
    /\ HookTotal > 0
    /\ \E i \in HookReads :
           /\ io[i].line.request.callback_id = HookId(HookTotal)
           /\ \E k \in (i + 1)..Len(io) :
                  /\ IsResponseTo(k, i)
                  /\ io[k].op = "write"
                  /\ \E j \in (k + 1)..Len(io) :
                         io[j].op \in {"read", "eof"} /\ io[j].run = io[i].run

----------------------------------------------------------------------------
(* Helpers for the responded set                                           *)

\* Indexes of the completed respond_to_tool calls for tool_use_id.
RespondCalls(tool_use_id) ==
    {j \in 1..Len(calls) :
        calls[j].op = "respond_to_tool" /\ calls[j].id = tool_use_id}

\* Call j comes after a call that sent the result for the same id, with no
\* clear_tool_response_tracking in between.
AnsweredBefore(j) ==
    \E i \in 1..(j - 1) :
        /\ calls[i].op = "respond_to_tool"
        /\ calls[i].id = calls[j].id
        /\ calls[i].wrote
        /\ NoClearBetween(i, j)

\* Indexes of the log entries where the send of a tool-result message for
\* tool_use_id failed, before or after the message bytes.
ToolResultFailedWrites(tool_use_id) ==
    {i \in 1..Len(io) :
        /\ io[i].op \in {"write_failed", "newline_failed"}
        /\ io[i].line.type = "user"
        /\ io[i].line.message.content[1].type = "tool_result"
        /\ io[i].line.message.content[1].tool_use_id = tool_use_id}

----------------------------------------------------------------------------
(* C13 *)

\* C13: a respond_to_tool call is a no-op exactly when the id was answered
\* since the last clear_tool_response_tracking: after a clear the next call
\* with a previously answered id writes one new tool-result message (or
\* returns the send's error), and calls after that are no-ops again.
C13_ClearReenablesOneSend ==
    \A id \in ToolUseIds :
        /\ \A j \in RespondCalls(id) :
               IF AnsweredBefore(j)
               THEN ~calls[j].wrote /\ calls[j].ret = "Ok"
               ELSE calls[j].wrote = (calls[j].ret = "Ok")
        /\ stdin_open => \A j \in RespondCalls(id) : calls[j].wrote = ~AnsweredBefore(j)
        /\ Cardinality(ToolResultWrites(id))
               = Cardinality({j \in RespondCalls(id) : calls[j].wrote})

\* C13 witness: respond(id) wrote, the tracking was cleared, respond(id)
\* wrote again, and a fourth call with the id was a no-op: two writes.
C13_Witness ==
    /\ Len(calls) = 4
    /\ calls[1].op = "respond_to_tool" /\ calls[1].wrote
    /\ calls[2].op = "clear_tool_response_tracking"
    /\ calls[3].op = "respond_to_tool" /\ calls[3].id = calls[1].id /\ calls[3].wrote
    /\ calls[4].op = "respond_to_tool" /\ calls[4].id = calls[1].id
    /\ ~calls[4].wrote /\ calls[4].ret = "Ok"
    /\ Cardinality(ToolResultWrites(calls[1].id)) = 2

----------------------------------------------------------------------------
(* C14 *)

\* C14: the responded set holds exactly the ids whose send succeeded since
\* the last clear: a failed send returns the error and leaves the set as it
\* was, and each later call with that id attempts the send again.
C14_InsertOnlyAfterSuccessfulSend ==
    /\ responded_tool_ids =
           {id \in ToolUseIds :
               \E j \in RespondCalls(id) :
                   calls[j].wrote /\ NoClearBetween(j, Len(calls) + 1)}
    /\ \A id \in ToolUseIds :
           /\ \A j \in RespondCalls(id) : calls[j].ret = "Err" => ~calls[j].wrote
           /\ Cardinality(ToolResultFailedWrites(id))
                  = Cardinality({j \in RespondCalls(id) : calls[j].ret = "Err"})

\* C14 witness: two calls with the same id both had their send fail: two
\* failed writes are logged and the id is not in the responded set.
C14_Witness ==
    \E i, j \in 1..Len(calls) :
        /\ i < j
        /\ calls[i].op = "respond_to_tool" /\ calls[j].op = "respond_to_tool"
        /\ calls[i].id = calls[j].id
        /\ calls[i].ret = "Err" /\ calls[j].ret = "Err"
        /\ Cardinality(ToolResultFailedWrites(calls[i].id)) >= 2
        /\ calls[i].id \notin responded_tool_ids

----------------------------------------------------------------------------
(* C15 *)

\* Number of clear_tool_response_tracking calls completed.
ClearCount ==
    Cardinality({k \in 1..Len(calls) : calls[k].op = "clear_tool_response_tracking"})

\* The task is inside respond_to_tool between the membership check and the
\* insertion: waiting for the transport or writing its line.
InRespondSend(t) == host[t].pc \in {"transport_lock", "respond_nl"}

\* C15: under every interleaving of host tasks, only the task holding the
\* responded set's guard is between the membership check and the insertion,
\* so at most one tool-result message per id is written (one more for each
\* clear_tool_response_tracking).
C15_NoDuplicateInFlight ==
    /\ Cardinality({t \in Tasks : InRespondSend(t)}) <= 1
    /\ \A t \in Tasks : InRespondSend(t) = (responded_lock = t)
    /\ \A t \in Tasks : InRespondSend(t) => host[t].id \notin responded_tool_ids
    /\ \A id \in ToolUseIds :
           /\ Cardinality(ToolResultWrites(id)) <= 1 + ClearCount
           /\ Cardinality(ToolResultData(id)) <= 1 + ClearCount

\* C15 witness: both tasks are inside respond_to_tool with the same id, one
\* past the membership check and the other waiting for the guard.
C15_Witness ==
    /\ host["h1"].pc = "transport_lock"
    /\ host["h2"].pc = "responded_lock"
    /\ host["h1"].id = host["h2"].id
    /\ responded_lock = "h1"

----------------------------------------------------------------------------
(* C16 *)

\* A decoded line that is a control response, or a control request of a
\* kind other than McpMessage and HookCallback.
IsUnservicedLine(line) ==
    \/ line.type = "control_response"
    \/ /\ line.type = "control_request"
       /\ line.request.subtype \notin {"mcp_message", "hook_callback"}

\* Indexes of the log entries where receive() read such a line.
UnservicedReads == {i \in DecodedReads : IsUnservicedLine(io[i].line)}

\* C16: when receive() matches a control response, or a control request of
\* a kind other than McpMessage and HookCallback, it yields nothing, writes
\* nothing, changes no client state and goes back to the top of the loop to
\* read the next line.
C16_UnservicedControlIsIgnored ==
    [][ ( /\ rpc = "match"
          /\ incoming.r.tag = "Some"
          /\ IsUnservicedLine(incoming.r.value)
          /\ incoming' # incoming )
        => /\ rpc' = "lock"
           /\ UNCHANGED <<history, turn, transport>>
           /\ UNCHANGED <<mcp_servers, hooks, hook_callbacks, io, transport_lock,
                          responded_lock, responded_tool_ids, session_id, run,
                          response, pending, yielded, handler_calls, host, calls>>
      ]_vars

\* C16 witness: an unserviced control request and a control response were
\* read, nothing was yielded or written for them, and the same invocation
\* went on to read the line after each.
C16_Witness ==
    /\ \E i \in UnservicedReads : io[i].line.type = "control_request"
    /\ \E i \in UnservicedReads : io[i].line.type = "control_response"
    /\ \A i \in UnservicedReads :
           /\ ItemsOf(io[i].n) = <<>>
           /\ \A k \in 1..Len(io) :
                  io[k].op \in SendEntries => io[k].n # io[i].n
           /\ \E j \in (i + 1)..Len(io) : io[j].op = "read" /\ io[j].run = io[i].run

\* What the child may write while host tasks send: a tool call for the
\* receive loop to answer, and streaming content.
PipesLines(n) ==
    { IncomingJson(inc) : inc \in
      { ControlRequestLine(n, McpMessageRequest("calc", ToolsCall(JStr("echo")))),
        AssistantLine(<<TextBlock("hi")>>) } }

ChildEmitPipes == ChildEmit(PipesLines(n_emitted + 1), MaxPipeLines)

\* Host tasks sending while a receive loop reads and answers, each send
\* taken step by step; the child keeps its output open.
NextPipes ==
    \/ \E t \in Tasks : CallSendOf(t, {"query", "interrupt"})
    \/ \E t \in Tasks : SendWriteData(t)
    \/ \E t \in Tasks : SendWriteNewline(t)
    \/ ChildEmitPipes
    \/ ChildCloseStdin
    \/ StartReceive
    \/ RecvLock
    \/ RecvRead
    \/ RecvMatch
    \/ RecvRespondData
    \/ RecvRespondNewline
    \/ RecvYield

SpecPipes == Init /\ [][NextPipes]_vars

\* The request ids of the get_server_info requests the child has received.
ServerInfoRequestIds ==
    { io[i].line.request_id :
        i \in {j \in 1..Len(io) : /\ io[j].op = "write"
                                   /\ io[j].by # "recv"
                                   /\ io[j].line.type = "control_request"
                                   /\ io[j].line.request.subtype = "get_server_info"} }

\* Lines the child writes while every kind of writer sends.
MaxWriterLines == 1

\* What the child may write then: a tool call for the receive loop to
\* answer, and the answer to a get_server_info request it has received.
WriterLines(n) ==
    { IncomingJson(inc) : inc \in
      { ControlRequestLine(n, McpMessageRequest("calc", ToolsCall(JStr("echo")))) }
      \cup { ControlResponseWith(rid, JObj([version |-> JStr("2.0.1")])) :
             rid \in ServerInfoRequestIds } }

ChildEmitWriters == ChildEmit(WriterLines(n_emitted + 1), MaxWriterLines)

\* Host tasks calling the methods that write to the child, each send taken
\* step by step, while a receive loop reads and answers.  query and
\* interrupt stand for the five methods of SendOps, which lock the
\* transport and send one line in the same way.
NextWriters ==
    \/ \E t \in Tasks : CallSendOf(t, {"query", "interrupt"})
    \/ \E t \in Tasks : SendWriteData(t)
    \/ \E t \in Tasks : SendWriteNewline(t)
    \/ \E t \in Tasks : CallRespondToToolUpTo(t, MaxHostCalls, {FALSE})
    \/ \E t \in Tasks : RespondCheck(t)
    \/ \E t \in Tasks : RespondSendData(t)
    \/ \E t \in Tasks : RespondSendNewline(t)
    \/ \E t \in Tasks : CallGetServerInfo(t)
    \/ \E t \in Tasks : GetServerInfoSendData(t)
    \/ \E t \in Tasks : GetServerInfoSendNewline(t)
    \/ \E t \in Tasks : GetServerInfoRead(t)
    \/ ChildEmitWriters
    \/ ChildCloseStdin
    \/ StartReceive
    \/ RecvLock
    \/ RecvRead
    \/ RecvMatch
    \/ RecvRespondData
    \/ RecvRespondNewline

SpecWriters == Init /\ [][NextWriters]_vars

\* Two host tasks polling receive() streams on the same client.
NextStreams ==
    \/ ChildEmitPieces
    \/ ChildEmitRest
    \/ ChildCloseStdout
    \/ \E t \in Tasks : StreamStart(t)
    \/ \E t \in Tasks : StreamLock(t)
    \/ \E t \in Tasks : StreamRead(t)
    \/ \E t \in Tasks : StreamMatch(t)
    \/ \E t \in Tasks : StreamRespondData(t)
    \/ \E t \in Tasks : StreamRespondNewline(t)
    \/ \E t \in Tasks : StreamYield(t)
    \/ \E t \in Tasks : StreamYieldErr(t)

SpecStreams == Init /\ [][NextStreams]_vars

\* A conversation: turns sent one after another, each driving the receive
\* loop, and the history cleared between turns.
NextConversation ==
    \/ ChildEmitTurn
    \/ ChildCloseStdout
    \/ ChildCloseStdin
    \/ TurnSend
    \/ TurnQuerySent
    \/ TurnPollsStart /\ StartReceive
    \/ TurnPolls /\ RecvLock
    \/ TurnPolls /\ RecvRead
    \/ TurnPolls /\ RecvMatch
    \/ TurnPolls /\ RecvYield
    \/ TurnPolls /\ RecvYieldErr
    \/ TurnItem
    \/ TurnEnd
    \/ ClearHistory

SpecConversation == Init /\ [][NextConversation]_vars

\* Structured turns: send_as called one turn after another.
NextSendAs ==
    \/ ChildEmitAs
    \/ ChildCloseStdout
    \/ ChildCloseStdin
    \/ TurnSendAs
    \/ TurnQuerySent
    \/ TurnPollsStart /\ StartReceive
    \/ TurnPolls /\ RecvLock
    \/ TurnPolls /\ RecvRead
    \/ TurnPolls /\ RecvMatch
    \/ TurnPolls /\ RecvYield
    \/ TurnPolls /\ RecvYieldErr
    \/ TurnItem
    \/ TurnEnd
    \/ SendAsExtract

SpecSendAs == Init /\ [][NextSendAs]_vars

\* A transport from spawn to its end, by close or by drop.
NextShutdown ==
    \/ ChildWriteStderr
    \/ ChildCloseStderr
    \/ ChildExits
    \/ LogStderr
    \/ StderrTaskCancelled
    \/ TransportClose
    \/ TransportCloseReturn
    \/ TransportDrop

SpecShutdown == Init /\ [][NextShutdown]_vars

----------------------------------------------------------------------------
(* get_server_info and the host's control requests                         *)

\* The get_server_info calls that have returned.
GetServerInfoCalls == {i \in 1..Len(calls) : calls[i].op = "get_server_info"}

\* The lines read by host task or receive loop, by their number.
ReadAt(n) == io[CHOOSE j \in 1..Len(io) : io[j].op = "read" /\ io[j].n = n].line

\* The get_server_info calls that returned on reading a control response.
AnsweredServerInfoCalls ==
    {i \in GetServerInfoCalls :
        /\ calls[i].consumed # 0
        /\ ReadAt(calls[i].consumed) # Undecoded
        /\ ReadAt(calls[i].consumed).type = "control_response"}

\* C17: get_server_info returns the outcome of the control response that
\* answers its own request: the response a call returned on bears the
\* request id of the GetServerInfo request the call sent, a response with
\* any other request id having been discarded.
C17_ServerInfoFromOwnResponse ==
    \A i \in AnsweredServerInfoCalls :
        ReadAt(calls[i].consumed).response.request_id = calls[i].request_id

\* The get_server_info calls that returned on reading an error-outcome
\* control response.
RefusedServerInfoCalls ==
    {i \in AnsweredServerInfoCalls :
        ReadAt(calls[i].consumed).response.subtype = "error"}

\* C18: a get_server_info call that reads an error-outcome control response
\* returns ControlError carrying that response's request id and message, and
\* the session goes on: the call has released the transport, so that later
\* sends are written and a receive() stream ends only with the child's
\* output.
C18_ErrorOutcomeIsControlError ==
    /\ \A i \in RefusedServerInfoCalls :
           LET err == ReadAt(calls[i].consumed).response IN
           /\ calls[i].ret.tag = "Err"
           /\ calls[i].ret.error = "ControlError"
           /\ calls[i].ret.request_id = err.request_id
           /\ calls[i].ret.message = err.error.message
           /\ \A j \in (i + 1)..Len(calls) :
                  calls[j].op = "query" /\ stdin_open => calls[j].ret = "Ok"
    /\ \A t \in Tasks : host[t].pc = "idle" => transport_lock # t
    /\ rpc = "done" => child_eof /\ inbuf = <<>>

\* A get_server_info call returned ControlError for a response that answers
\* another request; a later query was written and a later receive() stream
\* yielded a line read after it.
C18_Witness ==
    \E i \in RefusedServerInfoCalls :
        /\ ReadAt(calls[i].consumed).response.request_id # calls[i].request_id
        /\ \E j \in (i + 1)..Len(calls) : calls[j].op = "query" /\ calls[j].ret = "Ok"
        /\ \E k \in 1..Len(yielded) : yielded[k].ok /\ yielded[k].n > calls[i].consumed

\* Whether the control request the host sent at io[i] is an Interrupt.
IsInterruptSend(i) == io[i].line.request.subtype = "interrupt"

\* C19 as stated: no two control requests the host writes during a session
\* (Initialize, SetPermissionMode, SetModel, GetServerInfo, Interrupt) share
\* a request_id.
C19_UniqueRequestIds ==
    \A i, j \in HostRequestSends :
        i # j => io[i].line.request_id # io[j].line.request_id

\* C19, amended: Initialize, SetPermissionMode, SetModel and GetServerInfo
\* each carry a request_id no other control request of the session carries;
\* every Interrupt carries the empty request_id.
C19_UniqueRequestIdsButInterrupt ==
    /\ \A i, j \in HostRequestSends :
           i # j /\ ~IsInterruptSend(i) =>
               io[i].line.request_id # io[j].line.request_id
    /\ \A i \in HostRequestSends :
           IsInterruptSend(i) <=> io[i].line.request_id = <<>>

\* The host has written Initialize, another identified control request and
\* an Interrupt, each a whole line.
C19_Witness ==
    \E i, j, k \in HostRequestSends :
        /\ i < j
        /\ \A s \in {i, j, k} : s < Len(io) /\ io[s + 1].op = "write"
        /\ io[i].line.request.subtype = "initialize"
        /\ io[j].line.request.subtype \in
               {"set_permission_mode", "set_model", "get_server_info"}
        /\ IsInterruptSend(k)

\* The entries the host's sends left in the pipe log.
HostWrites == {i \in 1..Len(io) : io[i].op \in SendEntries}

\* Whether the line the host sent at io[i] is the Initialize request.
IsInitializeSend(i) ==
    /\ io[i].line.type = "control_request"
    /\ io[i].line.request.subtype = "initialize"

\* Some method of a client has been called.
ClientUsed == calls # <<>> \/ \E t \in Tasks : host[t].pc # "idle"

\* Client::new wrote the whole Initialize line: Ok(client) was returned.
InitializeWritten ==
    /\ Len(io) >= 2
    /\ io[1].op = "bytes" /\ io[1].by = "new"
    /\ io[2].op = "write" /\ io[2].by = "new"

\* C20: the first line the host writes is the Initialize control request,
\* by Client::new, which sends it once and sends nothing else; no prompt,
\* tool result or other control request is written, nothing is read and no
\* client method runs before that line is whole; a client exists only when
\* the whole line was written, and when the spawn or the write failed
\* Client::new has returned without a client, the transport it had spawned
\* dropped.
C20_InitializeFirstAndOnce ==
    /\ \A i \in HostWrites : io[i].by = "new" <=> IsInitializeSend(i)
    /\ \A i \in HostWrites : io[i].by = "new" <=> i <= 2
    /\ Cardinality({i \in HostWrites : io[i].by = "new" /\ io[i].op \in SendEnds}) <= 1
    /\ (ClientUsed \/ \E i \in 1..Len(io) : io[i].by # "new") => InitializeWritten
    /\ ClientExists => InitializeWritten
    /\ (io # <<>> /\ transport_lock # "new" /\ ~InitializeWritten) =>
           /\ ~ClientExists
           /\ transport.pc = (IF io[1].op = "spawn_failed" THEN "none" ELSE "dropped")

\* Client::new wrote Initialize and returned a client, whose methods then
\* wrote a prompt, a tool result and a control request.
C20_Witness ==
    /\ InitializeWritten /\ IsInitializeSend(1)
    /\ ClientExists
    /\ \E i, j \in HostWrites :
           /\ io[i].op = "write" /\ io[i].line.type = "user"
           /\ io[j].op = "write" /\ j > 2 /\ io[j].line.type = "control_request"
    /\ \E k \in 1..Len(calls) : calls[k].op = "respond_to_tool" /\ calls[k].wrote

----------------------------------------------------------------------------
(* The session identifier                                                  *)

\* C21: once the session identifier is Some(s) it stays Some(s): no step of
\* the host or of the receive loop, whatever the child writes, changes it
\* or clears it.
C21_SessionIdSetOnce ==
    [][session_id # None => session_id' = session_id]_vars

----------------------------------------------------------------------------
(* The callback ids advertised in Initialize                               *)

\* The hookCallbackIds object of the Initialize request that was written.
AdvertisedIds ==
    IF "hooks" \in DOMAIN io[1].line.request
    THEN io[1].line.request.hooks.hookCallbackIds
    ELSE <<>>

\* The places of that object an id is listed at: <<event name, position>>.
AdvertisedSlots ==
    UNION { { <<K, i>> : i \in DOMAIN AdvertisedIds[K] } : K \in DOMAIN AdvertisedIds }

\* The id listed at a place (tool-use events wrap it in callbackIds).
AdvertisedIdAt(slot) ==
    LET e == AdvertisedIds[slot[1]][slot[2]] IN
    IF slot[1] \in {"PreToolUse", "PostToolUse"} THEN e.callbackIds[1] ELSE e

\* Every id the Initialize request lists under event K at position i is
\* routed by hook_callbacks to kind K, index i (counted from 0), and every
\* routed id is listed exactly once.
AdvertisedIdsAgree ==
    /\ io[2].op = "write" /\ io[2].line = io[1].line
    /\ io[1].line.request.subtype = "initialize"
    /\ \A slot \in AdvertisedSlots :
           /\ AdvertisedIdAt(slot) \in DOMAIN hook_callbacks
           /\ hook_callbacks[AdvertisedIdAt(slot)] =
                  [kind |-> slot[1], idx |-> slot[2] - 1]
    /\ \A id \in DOMAIN hook_callbacks :
           Cardinality({slot \in AdvertisedSlots : AdvertisedIdAt(slot) = id}) = 1

\* C28: the advertised ids agree with the routing table for the whole
\* session, and neither the table nor the written request changes.
C28_AdvertisedIdsMatchRouting ==
    /\ []AdvertisedIdsAgree
    /\ [][hook_callbacks' = hook_callbacks /\ io'[1] = io[1] /\ io'[2] = io[2]]_vars

\* Hooks of all four kinds are registered, a callback for a post-tool-use
\* hook has been routed and answered.
C28_Witness ==
    /\ hooks # None
    /\ \A K \in {"PreToolUse", "PostToolUse", "UserPromptSubmit", "Stop"} :
           HookListLen(hooks[1], K) > 0
    /\ \E c \in 1..Len(handler_calls) : handler_calls[c].call.hook = "PostToolUse"
    /\ \E i \in 1..Len(io) : io[i].op = "write" /\ io[i].by = "recv"

----------------------------------------------------------------------------
(* Successive receive() invocations                                        *)

\* The reads of the receive loop, in the order they were made.
RecvReads == SelectSeq(io, LAMBDA e : e.op = "read")

\* The child's output changes only by the child appending a line or by a
\* read taking the oldest unread line, which is the line the read returns.
ReadTakesOldestLine ==
    inbuf' # inbuf =>
        \/ /\ Len(inbuf') = Len(inbuf) + 1
           /\ SubSeq(inbuf', 1, Len(inbuf)) = inbuf
           /\ io' = io
        \/ /\ inbuf # <<>>
           /\ inbuf' = Tail(inbuf)
           /\ Len(io') = Len(io) + 1
           /\ io'[Len(io')].op = "read"
           /\ io'[Len(io')].wire = Head(inbuf)
           /\ io'[Len(io')].n = Len(RecvReads) + 1
           /\ io'[Len(io')].run = run

\* The lines are read and their events yielded in arrival order across
\* invocations, each line within one invocation.
ProcessedInArrivalOrder ==
    /\ \A i \in 1..Len(RecvReads) : RecvReads[i].n = i
    /\ \A i, j \in 1..Len(RecvReads) : i < j => RecvReads[i].run <= RecvReads[j].run
    /\ \A i, j \in 1..Len(yielded) :
           i < j => /\ yielded[i].n <= yielded[j].n
                    /\ yielded[i].run <= yielded[j].run
    /\ \A i \in 1..Len(yielded) :
           yielded[i].n \in 1..Len(RecvReads)
           /\ RecvReads[yielded[i].n].run = yielded[i].run

\* C25: across successive receive() invocations the inbound lines are
\* processed strictly in arrival order, none skipped and none twice: every
\* read, in whichever invocation, takes the oldest line not yet read, so an
\* invocation that follows one ended at a terminal event begins with the
\* first line after that result line.
C25_ReceiveRestartsAtNextLine ==
    /\ []ProcessedInArrivalOrder
    /\ [][ReadTakesOldestLine]_vars

\* An invocation ended at a Complete event of line n while a later line was
\* already buffered, and the next invocation yielded an event of line n + 1.
C25_Witness ==
    \E i, j \in 1..Len(yielded) :
        /\ yielded[i].ok /\ yielded[i].response.kind = "Complete"
        /\ yielded[j].ok
        /\ yielded[j].run = yielded[i].run + 1
        /\ yielded[j].n = yielded[i].n + 1

----------------------------------------------------------------------------
(* The child's input: whole lines                                          *)

\* What has reached the child's stdin, in order: the bytes of a message
\* ("bytes") and the newline that ends its line ("write").
StdinLog == SelectSeq(io, LAMBDA e : e.op \in {"bytes", "write"})

\* The writer of an entry is still inside Transport::send.
MidSend(by) ==
    CASE by = "recv" -> rpc = "respond_nl"
      [] by = "new" -> transport_lock = "new"
      [] OTHER -> host[by].pc \in {"send_nl", "respond_nl", "gsi_nl", "s_respond_nl"}

\* C29: under every interleaving of the sending host tasks and the receive
\* loop's control responses, each message on the child's input is followed
\* directly by its own newline: no bytes of another message come between
\* them, and only the last message may lack its newline, while its writer
\* is still sending or after the child closed its input.
C29_WholeLinesOnly ==
    \A i \in 1..Len(StdinLog) :
        /\ StdinLog[i].op = "bytes" =>
              IF i < Len(StdinLog)
              THEN /\ StdinLog[i + 1].op = "write"
                   /\ StdinLog[i + 1].by = StdinLog[i].by
                   /\ StdinLog[i + 1].line = StdinLog[i].line
              ELSE MidSend(StdinLog[i].by) \/ ~stdin_open
        /\ StdinLog[i].op = "write" =>
              /\ i > 1
              /\ StdinLog[i - 1].op = "bytes"
              /\ StdinLog[i - 1].by = StdinLog[i].by

\* The receive loop has written a whole control response; one task is
\* between the message and the newline of its get_server_info request while
\* the other, inside respond_to_tool, waits for the transport to write its
\* tool result.
C29_Witness ==
    /\ \E i \in 1..Len(StdinLog) : StdinLog[i].op = "write" /\ StdinLog[i].by = "recv"
    /\ \E t, u \in Tasks : host[t].pc = "gsi_nl" /\ host[u].pc = "transport_lock"

----------------------------------------------------------------------------
(* Sends while a read is in flight                                         *)

\* receive() is suspended in transport.receive(), no inbound line having
\* arrived yet.
ReadInFlight == rpc = "read" /\ inbuf = <<>> /\ ~child_eof

\* C26: a host send (query, interrupt, set_model) that another task has
\* issued while receive() is suspended waiting for the next inbound line
\* can be written at once, without that line arriving first.
C26_SendNotHeldUpByRead ==
    \A t \in Tasks :
        host[t].pc = "send_lock" /\ ReadInFlight => ENABLED SendWriteData(t)

\* Positions in the io log where a stream took a piece of line n.
PiecesOf(n) == {i \in 1..Len(io) : io[i].op = "piece" /\ io[i].n = n}

\* Positions in the io log where a stream's read_line returned a line.
StreamReads == {i \in 1..Len(io) : io[i].op = "read" /\ io[i].by \in Tasks}

\* The line returned at position i is the whole of one line the child wrote,
\* both pieces of which were taken just before by the same stream.
BothPiecesRead(i) ==
    /\ i > 2
    /\ io[i - 1].op = "piece" /\ io[i - 2].op = "piece"
    /\ io[i - 1].by = io[i].by /\ io[i - 2].by = io[i].by
    /\ io[i - 1].n = io[i].n /\ io[i - 2].n = io[i].n
    /\ io[i - 2].half = 1 /\ io[i - 1].half = 2
    /\ io[i].wire = io[i - 1].line

\* The line returned at position i is all the child wrote of its last line
\* before it closed its output: the first piece, taken just before by the
\* same stream, which is the message when only the newline is missing.
LastPieceRead(i) ==
    /\ i > 1
    /\ child_eof
    /\ io[i - 1].op = "piece"
    /\ io[i - 1].by = io[i].by
    /\ io[i - 1].n = io[i].n
    /\ io[i - 1].half = 1
    /\ io[i - 1].n = n_emitted
    /\ io[i].wire = IF io[i - 1].cut = "end" THEN io[i - 1].line
                    ELSE RawLine("truncated")

WholeLineRead(i) == BothPiecesRead(i) \/ LastPieceRead(i)

\* The stream that read line n.
ReaderOf(n) == {io[i].by : i \in {j \in StreamReads : io[j].n = n}}

\* C30: with two receive() streams polled concurrently, every line the child
\* wrote is taken whole by exactly one stream (its pieces all go to one
\* stream, which returns the line exactly as written, once), and what the line
\* produces is yielded only by the stream that read it, each item at most once.
C30_EachLineToOneStream ==
    /\ \A n \in 1..n_emitted :
           /\ Cardinality({io[i].by : i \in PiecesOf(n)}) <= 1
           /\ Cardinality(PiecesOf(n)) <= 2
           /\ Cardinality({i \in StreamReads : io[i].n = n}) <= 1
    /\ \A i \in StreamReads : WholeLineRead(i)
    /\ \A k \in 1..Len(yielded) :
           /\ ReaderOf(yielded[k].n) = {yielded[k].by}
           /\ \A j \in 1..Len(yielded) :
                  j # k /\ yielded[j].n = yielded[k].n /\ yielded[j].ok /\ yielded[k].ok
                      => yielded[j].response # yielded[k].response

\* Both streams are live, each has read a line of its own, and both lines
\* produced items.
C30_Witness ==
    /\ \E i, j \in StreamReads : io[i].by = "h1" /\ io[j].by = "h2"
    /\ \E k, l \in 1..Len(yielded) : yielded[k].by = "h1" /\ yielded[l].by = "h2"
    /\ \E i \in 1..Len(io) : io[i].op = "piece" /\ io[i].half = 1
           /\ \E t \in Tasks : t # io[i].by /\ host[t].pc = "s_lock"

\* C22: send appends a turn to the history only after the response stream of
\* that turn has yielded its terminal (Complete) event.
C22_TurnAppendedAfterComplete ==
    [][Len(history') > Len(history)
           => /\ Len(yielded) > turn.first
              /\ IsComplete(Last(yielded))]_vars

\* The events the send in progress has taken from its stream.
TurnEvents == IF turn.pc = "stream" THEN (turn.first + 1)..turn.seen ELSE {}

\* Positions in calls of the invocations of callback cb for the k-th event.
CallbackCalls(cb, k) ==
    {i \in 1..Len(calls) : calls[i].op = "callback" /\ calls[i].cb = cb /\ calls[i].k = k}

\* The k-th event is one the callback is for.
EventMatches(cb, k) ==
    /\ yielded[k].ok
    /\ \/ cb = "on_text" /\ yielded[k].response.kind = "Text"
       \/ cb = "on_thinking" /\ yielded[k].response.kind = "Thinking"
       \/ cb = "on_tool_use" /\ yielded[k].response.kind = "ToolUse"

\* C23: during send, each configured callback has been invoked exactly once
\* for every matching event taken so far and for nothing else, the
\* invocations follow the order of arrival, and each was made when the event
\* was not yet among the stored responses, with collect true or false.
C23_CallbacksOncePerEventInOrder ==
    /\ \A k \in TurnEvents : \A cb \in CallbackNames :
           /\ Cardinality(CallbackCalls(cb, k)) =
                  IF cb \in turn.on /\ EventMatches(cb, k) THEN 1 ELSE 0
           /\ \A i \in CallbackCalls(cb, k) :
                  calls[i].stored = IF turn.collect THEN k - 1 - turn.first ELSE 0
    /\ \A i, j \in 1..Len(calls) :
           i < j /\ calls[i].op = "callback" /\ calls[j].op = "callback"
               => calls[i].k < calls[j].k

\* A send that does not collect has passed a thinking and a tool-use event to
\* their callbacks and stored nothing.
C23_Witness ==
    /\ turn.pc = "stream"
    /\ ~turn.collect
    /\ turn.on = CallbackNames
    /\ \E k, l \in TurnEvents :
           /\ CallbackCalls("on_thinking", k) # {}
           /\ CallbackCalls("on_tool_use", l) # {}

\* C24: the history changes only by a send returning Ok, which appends its one
\* turn after the turns already there, or by clear_history, which empties it
\* and leaves the pipe log, the session id and the responded-tool set as
\* they were.
C24_HistoryAppendOrClear ==
    [][history' # history
           => \/ /\ turn.pc = "stream"
                 /\ history' = Append(history, Turn(turn.prompt, turn.responses))
                 /\ Len(calls') = Len(calls) + 1
                 /\ Last(calls').op = "send"
                 /\ Last(calls').ret = "Ok"
              \/ /\ history' = <<>>
                 /\ calls' = calls
                 /\ io' = io
                 /\ session_id' = session_id
                 /\ responded_tool_ids' = responded_tool_ids]_vars

\* A turn was sent, the history cleared, and a second turn appended, in a
\* session whose id is known.
C24_Witness ==
    /\ Len(history) = 1
    /\ history[1].prompt = "two"
    /\ session_id # None
    /\ Cardinality({i \in 1..Len(calls) : calls[i].op = "send" /\ calls[i].ret = "Ok"}) = 2

\* Positions in the transport's log of an event.
LogAt(ev) == {i \in 1..Len(transport.log) : transport.log[i] = ev}

\* Positions in a log of what the diagnostic-drain task wrote to the sink.
Forwarded(log) == {i \in 1..Len(log) : log[i] \in {"warn", "read_error"}}

\* A step that drops a transport no close was called on: it does not wait,
\* the child is as it was, and all it does is ask the diagnostic-drain task
\* to stop, issue the kill, whose failure it logs, and let go of the pipes.
DropStepDoesNotWait ==
    (transport.pc = "live" /\ transport'.pc = "dropped") =>
        /\ transport'.child = transport.child
        /\ \E kill_ok \in BOOLEAN :
               transport' = [DropTransport(transport, kill_ok) EXCEPT !.pc = "dropped"]
        /\ SubSeq(transport'.log, Len(transport.log) + 1, Len(transport.log) + 2)
               = <<"abort", "kill">>

\* What holds of a transport at every moment of its end.
ShutdownOrder ==
    /\ \A i \in LogAt("wait") : \E j \in LogAt("stdin_closed") : j < i
    /\ transport.pc \in {"close_wait", "closed"} => ~transport.stdin
    /\ \A i \in LogAt("close_returned") \cup LogAt("close_failed") :
           \E j \in LogAt("exit") : j < i
    /\ transport.pc = "closed" => transport.child = "exited"
    /\ transport.pc = "dropped" =>
           /\ LogAt("wait") = {}
           /\ LogAt("abort") # {}
           /\ LogAt("kill") # {}
           /\ ~transport.stdin
           /\ transport.stderr_task \in {"aborting", "aborted", "finished"}
    /\ transport.stderr_task \in {"aborting", "aborted"} => LogAt("abort") # {}

\* C27: close gives up the child's input stream before it starts waiting for
\* the child, and has returned, with Ok or with the error of the wait, only
\* when the child had exited; a transport dropped without close never
\* waits: the drop is one step that leaves the child as it is, running or
\* not, asks the diagnostic-drain task to stop and issues a kill, and once
\* the task was asked to stop it is never again simply running, and once it
\* has stopped it forwards nothing more.
C27_CloseWaitsDropKills ==
    /\ []ShutdownOrder
    /\ [][DropStepDoesNotWait]_vars
    /\ [][transport.stderr_task \in {"aborting", "aborted"}
              => transport'.stderr_task # "running"]_vars
    /\ [][transport.stderr_task = "aborted"
              => Forwarded(transport'.log) = Forwarded(transport.log)]_vars

\* The transport was dropped while the child was still running and had
\* diagnostic output left undrained: nothing waited for the child, and the
\* task forwarded a line after it was asked to stop, then stopped.
C27_Witness ==
    /\ transport.pc = "dropped"
    /\ transport.child = "running"
    /\ transport.stderr # <<>>
    /\ transport.stderr_task = "aborted"
    /\ \E i \in LogAt("abort"), j \in LogAt("warn") : i < j

----------------------------------------------------------------------------
(* C31 *)

\* Positions in the pipe log of the lines receive() sent to the child.
RecvSends == {k \in 1..Len(io) : io[k].op \in SendEntries /\ io[k].by = "recv"}

\* Positions before k where receive() read the control request numbered n.
RequestReadBefore(k, n) ==
    {i \in 1..(k - 1) : /\ io[i].op = "read"
                        /\ io[i].n = n
                        /\ io[i].line # Undecoded
                        /\ io[i].line.type = "control_request"}

\* C31: every line receive() sends is a control response with a success
\* outcome, and its request_id is that of a control request receive() read
\* before, the one the response was computed for; on the paths of a known
\* and an unknown endpoint, a registered and an unregistered hook alike.
C31_ResponsesAreSuccessWithReadId ==
    \A k \in RecvSends :
        /\ io[k].line.type = "control_response"
        /\ io[k].line.response.subtype = "success"
        /\ RequestReadBefore(k, io[k].n) # {}
        /\ \A i \in RequestReadBefore(k, io[k].n) :
               /\ io[i].line.request.subtype \in {"mcp_message", "hook_callback"}
               /\ io[k].line.response.request_id = io[i].line.request_id

\* Two responses were sent: one for a request to an endpoint that is not
\* registered, one for a hook callback that is.
C31_Witness ==
    \E k, l \in RecvSends :
        /\ \E i \in RequestReadBefore(k, io[k].n) :
               /\ io[i].line.request.subtype = "mcp_message"
               /\ io[i].line.request.server_name \notin DOMAIN mcp_servers
        /\ \E i \in RequestReadBefore(l, io[l].n) :
               /\ io[i].line.request.subtype = "hook_callback"
               /\ io[i].line.request.callback_id \in DOMAIN hook_callbacks
               /\ "hookSpecificOutput" \in DOMAIN io[l].line.response.response

----------------------------------------------------------------------------
(* C32 *)

\* receive() has read a control request and not yet begun to write its
\* response.
BetweenRequestAndResponse == rpc = "respond"

\* C32: between reading a control request and writing its response receive()
\* does not hold the transport lock, so a host task waiting to send is able
\* to write its line there unless another task holds the lock; the response
\* need not be the next outbound line after the request.
C32_LockReleasedBeforeResponse ==
    /\ rpc \in {"match", "respond"} => transport_lock # "recv"
    /\ \A t \in Tasks :
           BetweenRequestAndResponse /\ host[t].pc = "send_lock" /\ transport_lock = "free"
               => ENABLED SendWriteData(t)

\* A host task's whole line lies in the pipe log after the read of a control
\* request and before the response to it.
C32_Witness ==
    \E i, j, k \in 1..Len(io) :
        /\ i < j /\ j + 1 < k
        /\ io[i].op = "read" /\ io[i].line.type = "control_request"
        /\ io[j].op = "bytes" /\ io[j].by \in Tasks
        /\ io[j + 1].op = "write" /\ io[j + 1].by = io[j].by
        /\ io[k].op = "bytes" /\ io[k].by = "recv" /\ io[k].n = io[i].n
        /\ io[k].line.response.request_id = io[i].line.request_id

----------------------------------------------------------------------------
(* C33 *)

\* Positions in the pipe log where a draining get_server_info read a tool
\* request, a hook callback or an init message.
DrainedReads ==
    {i \in 1..Len(io) :
        /\ io[i].op = "read"
        /\ io[i].by \in Tasks
        /\ \/ /\ io[i].line.type = "control_request"
              /\ io[i].line.request.subtype \in {"mcp_message", "hook_callback"}
           \/ /\ io[i].line.type = "system"
              /\ io[i].line.subtype = "init"}

\* Positions in the pipe log where receive() read an init message carrying
\* the session id sid.
RecvInitReads(sid) ==
    {i \in 1..Len(io) :
        /\ io[i].op = "read"
        /\ io[i].by = "recv"
        /\ io[i].line.type = "system"
        /\ io[i].line.subtype = "init"
        /\ InitSessionId(io[i].line) = Some(sid)}

\* C33: a tool request, hook callback or init message read by a draining
\* get_server_info is dropped: no control response for it is ever sent (none
\* bears its request id), no handler or hook callback runs for it, receive()
\* neither reads it nor yields anything from it, and the session id is only
\* ever one that receive() itself read.
C33_DrainedLinesAreDiscarded ==
    /\ \A i \in DrainedReads :
           /\ \A k \in 1..Len(io) :
                  io[k].op \in SendEntries /\ io[k].by = "recv"
                      => /\ io[k].n # io[i].n
                         /\ io[i].line.type = "control_request"
                                => io[k].line.response.request_id # io[i].line.request_id
           /\ \A k \in 1..Len(handler_calls) : handler_calls[k].n # io[i].n
           /\ \A k \in 1..Len(yielded) : yielded[k].n # io[i].n
           /\ \A k \in 1..Len(io) : io[k].op = "read" /\ io[k].n = io[i].n => k = i
    /\ session_id # None => RecvInitReads(session_id[1]) # {}

\* A get_server_info call drained a tool request and an init message and
\* returned, and a receive() begun afterwards has reached end-of-stream.
C33_Witness ==
    /\ \E i, j \in DrainedReads :
           /\ io[i].line.type = "control_request"
           /\ io[j].line.type = "system"
    /\ \E c \in 1..Len(calls) : calls[c].op = "get_server_info"
    /\ rpc = "done"
    /\ session_id = None

----------------------------------------------------------------------------
(* C34 *)

\* Positions in the pipe log where a call began to write a GetServerInfo
\* request: its bytes are in the pipe.
ServerInfoWrites ==
    {i \in 1..Len(io) :
        /\ io[i].op = "bytes"
        /\ io[i].by \in Tasks
        /\ io[i].line.type = "control_request"
        /\ io[i].line.request.subtype = "get_server_info"}

\* Log entry j is where the call that wrote the request at i returned: its
\* newline failed, or it met end-of-stream, a control response, or a line
\* that does not decode.
EndsServerInfoCall(i, j) ==
    /\ io[j].by = io[i].by
    /\ \/ io[j].op \in {"eof", "newline_failed"}
       \/ /\ io[j].op = "read"
          /\ GetServerInfoStep(io[i].line.request_id,
                               TransportReceive(io[j].wire)).tag # "Continue"

\* C34: from the writing of a GetServerInfo request until its call returns,
\* everything that happens on the pipes is done by that call (the newline
\* of its request, then its reads), and the call holds the transport lock:
\* no other request (a second get_server_info included), no other host
\* send and no read by receive() comes in between.
C34_ServerInfoCallsSerialized ==
    /\ \A i \in ServerInfoWrites : \A k \in (i + 1)..Len(io) :
           (\A j \in (i + 1)..(k - 1) : ~EndsServerInfoCall(i, j))
               => /\ io[k].by = io[i].by
                  /\ io[k].op \in {"write", "newline_failed", "read", "eof"}
                  /\ io[k].op \in {"write", "newline_failed"} <=> k = i + 1
    /\ \A t \in Tasks : host[t].pc \in {"gsi_nl", "gsi_drain"} => transport_lock = t

\* Both tasks have called get_server_info and got an answer, one after the
\* other, while a receive stream was waiting for the lock.
C34_Witness ==
    /\ \E c, d \in 1..Len(calls) :
           /\ calls[c].op = "get_server_info" /\ calls[d].op = "get_server_info"
           /\ calls[c].task = "h1" /\ calls[d].task = "h2"
           /\ calls[c].ret.tag = "Ok" /\ calls[d].ret.tag = "Ok"
    /\ rpc = "lock"

----------------------------------------------------------------------------
(* C35 *)

\* A tool handler or hook callback is being invoked in this step.
HandlerRuns == Len(handler_calls') > Len(handler_calls)

\* C35: whenever receive() invokes a tool handler or a hook callback, the
\* receive loop holds neither the transport lock nor the responded-set lock;
\* it holds no lock at all from the end of a read until it sends the
\* response.
C35_HandlersRunWithoutLocks ==
    /\ [](rpc \in {"match", "respond"} =>
              transport_lock # "recv" /\ responded_lock # "recv")
    /\ [][HandlerRuns => /\ rpc = "match"
                         /\ transport_lock = "free"
                         /\ responded_lock = "free"]_vars

\* A tool handler and a hook callback have both been invoked by receive().
C35_Witness ==
    \E k, l \in 1..Len(handler_calls) :
        /\ "tool" \in DOMAIN handler_calls[k].call
        /\ "hook" \in DOMAIN handler_calls[l].call

----------------------------------------------------------------------------
(* C36 *)

\* The host tasks and the receive loop.
LockUsers == Tasks \cup {"recv"}

\* The lock a task or the receive loop is waiting to acquire, if any.
WaitsFor(a) ==
    IF a = "recv"
    THEN IF rpc \in {"lock", "respond"} THEN {"transport"} ELSE {}
    ELSE CASE host[a].pc = "responded_lock" -> {"responded"}
           [] host[a].pc \in {"transport_lock", "send_lock", "gsi_lock"} -> {"transport"}
           [] OTHER -> {}

\* Who holds a lock.
HolderOf(lock) == IF lock = "transport" THEN transport_lock ELSE responded_lock

\* a waits for a lock that b holds.
BlockedBy(a, b) == a # b /\ \E l \in WaitsFor(a) : HolderOf(l) = b

\* C36: nobody who holds the transport lock is acquiring the responded-set
\* lock (the only nesting is responded-set, then transport), and no cycle of
\* tasks each waiting for a lock the next one holds is ever reached.
C36_LockOrderRespondedThenTransport ==
    /\ \A a \in LockUsers : HolderOf("transport") = a => "responded" \notin WaitsFor(a)
    /\ \A a, b \in LockUsers : ~(BlockedBy(a, b) /\ BlockedBy(b, a))
    /\ \A a, b, c \in LockUsers : ~(BlockedBy(a, b) /\ BlockedBy(b, c) /\ BlockedBy(c, a))

\* A chain of waits: one task waits for the responded-set lock, held by the
\* other, which waits for the transport lock, held by the receive loop.
C36_Witness ==
    \E a, b \in Tasks :
        /\ BlockedBy(a, b)
        /\ BlockedBy(b, "recv")
        /\ "responded" \in WaitsFor(a)

----------------------------------------------------------------------------
(* C37 *)

\* Positions in the pipe log where receive()'s send of a control response
\* failed, before or after the bytes of the response.
FailedResponses ==
    {k \in 1..Len(io) : io[k].op \in {"write_failed", "newline_failed"} /\ io[k].by = "recv"}

\* The receive() invocation that read inbound line n.
RunOfLine(n) == io[CHOOSE i \in 1..Len(io) : io[i].op = "read" /\ io[i].n = n].run

\* C37: when the write of a control response fails inside receive(), nothing
\* is yielded for that line (no Err item), the response is attempted once
\* only, and the stream goes on: receive() is back at reading, and what
\* follows in the pipe log is its read of the next line or of end-of-stream.
C37_FailedResponseOnlyLogged ==
    \A k \in FailedResponses :
        /\ \A y \in 1..Len(yielded) : yielded[y].n # io[k].n
        /\ \A j \in 1..Len(io) :
               io[j].op \in SendEnds /\ io[j].by = "recv"
                   /\ io[j].n = io[k].n => j = k
        /\ Cardinality({j \in 1..Len(io) : /\ io[j].op \in {"bytes", "write_failed"}
                                            /\ io[j].by = "recv"
                                            /\ io[j].n = io[k].n}) = 1
        /\ k = Len(io) => rpc \in {"lock", "read"}
        /\ k < Len(io) => /\ io[k + 1].op \in {"read", "eof"}
                          /\ io[k + 1].by = "recv"
                          /\ io[k + 1].run = RunOfLine(io[k].n)

\* A response was cut off after its bytes, and the same receive() then read
\* another control request and tried to answer it.
C37_Witness ==
    \E k, l \in FailedResponses :
        /\ k + 2 = l
        /\ io[k].op = "newline_failed"
        /\ io[k + 1].op = "read"
        /\ io[k + 1].run = RunOfLine(io[k].n)
        /\ io[l].n = io[k + 1].n

----------------------------------------------------------------------------
(* C38 *)

\* Positions in the pipe log where receive() read an assistant message that
\* carries an error.
AssistantErrorReads == {i \in AssistantReads : "error" \in DOMAIN io[i].line.message}

\* Positions in the pipe log where receive() read a user echo.
UserReads == {i \in DecodedReads : io[i].line.type = "user"}

\* After the line read at i the same invocation of receive() goes on: it is
\* about to read, or has read, the next line or end-of-stream.
SameRunGoesOn(i) ==
    /\ i = Len(io) => run = io[i].run /\ rpc \in {"lock", "read"}
    /\ i < Len(io) => io[i + 1].op \in {"read", "eof"} /\ io[i + 1].run = io[i].run

\* C38: an assistant message with an error field yields exactly one Error
\* event, carrying that error, and none of its blocks, however many it has; a
\* user echo yields nothing; after either, the stream has not ended and
\* receive() goes on to the next line.
C38_ErrorAndUserEchoEvents ==
    /\ \A i \in AssistantErrorReads :
           LineDone(io[i].n) =>
               /\ ItemsOf(io[i].n) =
                      <<[run |-> io[i].run, n |-> io[i].n, ok |-> TRUE,
                         response |-> [kind |-> "Error",
                                       inner |-> [assistant |-> io[i].line.message.error]]]>>
               /\ SameRunGoesOn(i)
    /\ \A i \in UserReads :
           /\ ItemsOf(io[i].n) = <<>>
           /\ LineDone(io[i].n) => SameRunGoesOn(i)

\* A message in error with three blocks and a user echo were processed one
\* after the other, and the same receive() read a further line.
C38_Witness ==
    \E i \in AssistantErrorReads :
        /\ Len(io[i].line.message.content) = 3
        /\ i + 2 <= Len(io)
        /\ i + 1 \in UserReads
        /\ io[i + 2].op = "read"
        /\ io[i + 2].run = io[i].run

----------------------------------------------------------------------------
(* C39 *)

\* Positions in calls of the sends that returned an error.
FailedSends == {c \in 1..Len(calls) : calls[c].op = "send" /\ calls[c].ret = "Err"}

\* This step is a send returning an error.
SendFails ==
    /\ Len(calls') = Len(calls) + 1
    /\ Last(calls').op = "send"
    /\ Last(calls').ret = "Err"

\* C39: a send that fails leaves the history exactly as it was, and the
\* error it returns is the one it met: the write error of the prompt when
\* nothing was received, otherwise the error the response stream yielded.
C39_FailedSendLeavesHistory ==
    /\ [][SendFails => history' = history]_vars
    /\ [](\A c \in FailedSends :
              IF calls[c].seen = calls[c].first
              THEN calls[c].error = "Io"
              ELSE /\ ~yielded[calls[c].seen].ok
                   /\ calls[c].error = yielded[calls[c].seen].error)

\* After one turn was recorded, a second send took an event from its stream
\* and then failed on an error item; the history still has the one turn.
C39_Witness ==
    /\ Len(history) = 1
    /\ \E c \in FailedSends :
           /\ calls[c].seen > calls[c].first + 1
           /\ \E d \in 1..(c - 1) : calls[d].op = "send" /\ calls[d].ret = "Ok"

----------------------------------------------------------------------------
(* C40 *)

\* Positions in calls of the send_as calls that returned ProtocolError.
ProtocolErrors ==
    {c \in 1..Len(calls) : /\ calls[c].op = "send_as"
                           /\ calls[c].result.ret = "Err"
                           /\ calls[c].result.error = "ProtocolError"}

\* This step is send_as returning after send returned Ok.
SendAsReturns ==
    /\ Len(calls') = Len(calls) + 1
    /\ Last(calls').op = "send_as"

\* C40: send_as records the turn before it looks for the structured output:
\* when it returns ProtocolError the history is one turn longer than when it
\* was called, the last turn being the one of this call, which has no
\* Complete event or one without structured output; and looking for the
\* output does not touch the history.
C40_ProtocolErrorAfterTurnAppended ==
    /\ [](\A c \in ProtocolErrors : calls[c].grown = 1)
    /\ [][SendAsReturns =>
            /\ history' = history
            /\ Len(history) = turn.h0 + 1
            /\ Last(history) = Turn(turn.prompt, turn.responses)
            /\ (Last(calls').result.ret = "Err"
                /\ Last(calls').result.error = "ProtocolError")
               <=> \/ Len(completion(Last(history).responses)) = 0
                   \/ Len(structured_output(
                             completion(Last(history).responses)[1])) = 0]_vars

\* send_as returned ProtocolError once for a turn without a Complete event
\* and once for a turn whose Complete event has no structured output.
C40_Witness ==
    /\ Len(history) = 2
    /\ \E c, d \in ProtocolErrors :
           /\ calls[c].result.message = "no completion response"
           /\ calls[d].result.message = "no structured output in response"

=============================================================================
